---- MODULE Spec2Model ----
(***************************************************************************)
(* A model of the ceya language pipeline: the recursive-descent parser     *)
(* (src/src/parser.rs), the scope arena (src/src/environment.rs) and the   *)
(* tree-walking evaluator (src/src/ast.rs).                                *)
(*                                                                         *)
(* Conventions.  A token is a tuple <<typ>> or <<typ, payload>> whose      *)
(* first element is the name of the TokenType variant.  Parser cursors are *)
(* 0-based as in the source, so the token under cursor c is toks[c + 1].   *)
(* Every token sequence ends with its only EOF token, which is what        *)
(* Scanner::scan_tokens produces and what the unit tests build by hand.    *)
(* A parsing method returns a record [st, cur, val]: st is "ok", "err"     *)
(* (the method returned Err) or "panic" (an expect() failed), cur is the   *)
(* value of Parser::current when the method returns, val is the tree or    *)
(* the error message.                                                      *)
(***************************************************************************)
EXTENDS Integers, Sequences, FiniteSets, TLC

VARIABLES
    tokens,      \* Parser::tokens
    current,     \* Parser::current
    statements,  \* the local `statements` of Parser::parse
    pstate,      \* "idle", "parsing", "done" (parse returned), "panicked"
    call,        \* what the last parser action did, and from which cursor
    envs,        \* EnvironmentArena::envs
    op,          \* the last arena operation, its arguments, result and the arena before it
    kont,        \* evaluator: stack of active Stmt::execute frames
    ret,         \* evaluator: the Option<Value> returned by the frame that finished last
    out,         \* evaluator: the values written by println!
    log,         \* evaluator: what each While did, in order
    source,      \* Scanner::source, as its bytes
    scanner,     \* Scanner: tokens, start, current, line, and where scan_tokens stands (st)
    asm,         \* the assembly Stmt::compile returned, one line per element
    cpu          \* the machine running asm: registers, operand stack, position and state

vars == <<tokens, current, statements, pstate, call, envs, op, kont, ret, out, log,
          source, scanner, asm, cpu>>
parserVars == <<tokens, current, statements, pstate, call>>
arenaVars == <<envs, op>>
evalVars == <<kont, ret, out, log>>
scanVars == <<source, scanner>>
asmVars == <<asm, cpu>>

(***************************************************************************)
(* Values (ast.rs, enum Value).  A finite f64 is modelled by the exact     *)
(* rational n/d in lowest terms with d > 0; d = 0 encodes the IEEE         *)
(* specials: 1/0 is +inf, -1/0 is -inf and 0/0 is NaN.                     *)
(***************************************************************************)
Num(i) == <<"Number", i, 1>>
Str(s) == <<"String", s>>
Bool(b) == <<"Boolean", b>>
Null == <<"Null">>

(***************************************************************************)
(* Tokens                                                                  *)
(***************************************************************************)
Tok(t) == <<t>>
NumberTok(i) == <<"Number", i>>
StringTok(s) == <<"String", s>>
EOF == <<"EOF">>
typ(t) == t[1]

\* Parser::peek
peek(toks, cur) == toks[cur + 1]

\* Parser::previous
previous(toks, cur) == toks[cur]

\* Parser::is_at_end
is_at_end(toks, cur) == typ(peek(toks, cur)) = "EOF"

\* Parser::advance, as the new value of Parser::current
advance(toks, cur) == IF ~is_at_end(toks, cur) THEN cur + 1 ELSE cur

\* Parser::check
check(toks, cur, t) == IF is_at_end(toks, cur) THEN FALSE ELSE typ(peek(toks, cur)) = t

Ok(cur, val) == [st |-> "ok", cur |-> cur, val |-> val]
Err(cur, msg) == [st |-> "err", cur |-> cur, val |-> msg]
Panic(cur, msg) == [st |-> "panic", cur |-> cur, val |-> msg]

\* consume stepping back over the token before the expected one instead of past the
\* expected one
consumeBackwards(toks, cur, t, message) ==
    IF check(toks, cur, t) THEN Ok(cur - 1, peek(toks, cur))
    ELSE Err(cur, message)

\* Parser::consume
consume(toks, cur, t, message) ==
    IF check(toks, cur, t) THEN Ok(advance(toks, cur), previous(toks, advance(toks, cur)))
    ELSE Err(cur, message)

\* `match r { Ok(x) => K(x), Err(e) => return Err(e) }`, also written `r?`
Then(r, K(_)) == IF r.st # "ok" THEN r ELSE K(r)

EqualityOps == {"BangEqual", "EqualEqual"}
ComparisonOps == {"Greater", "GreaterEqual", "Less", "LessEqual"}
TermOps == {"Minus", "Plus"}
\* FactorOps with the additive operators matched at the multiplicative level as well
FactorOpsWide == {"Star", "Slash", "Minus", "Plus"}
FactorOps == {"Star", "Slash"}
UnaryOps == {"Bang", "Minus"}

RECURSIVE expression(_, _), equality(_, _), equalityLoop(_, _, _)
RECURSIVE comparison(_, _), comparisonLoop(_, _, _)
RECURSIVE term(_, _), termLoop(_, _, _), factor(_, _), factorLoop(_, _, _)
RECURSIVE unary(_, _), primary(_, _)

\* the `(` arm of Parser::primary, entered with the cursor on the `(`; back is what
\* `self.current -= 1` subtracts before the final advance
grouping(toks, cur, back) ==
    Then(expression(toks, advance(toks, cur)), LAMBDA e:
        IF check(toks, e.cur, "RightParen")
        THEN Ok(advance(toks, advance(toks, e.cur) - back), <<"Grouping", e.val>>)
        ELSE Err(e.cur, "Expect expression."))

\* primary without `self.current -= 1` after the closing parenthesis
primaryNoStepBack(toks, cur) ==
    LET t == peek(toks, cur)
        lit(v) == Ok(advance(toks, cur), <<"Literal", v>>)
    IN  CASE typ(t) = "False" -> lit(Bool(FALSE))
          [] typ(t) = "True" -> lit(Bool(TRUE))
          [] typ(t) = "Null" -> lit(Null)
          [] typ(t) = "Number" -> lit(Num(t[2]))
          [] typ(t) = "String" -> lit(Str(t[2]))
          [] typ(t) = "Soro" -> Ok(advance(toks, cur), <<"Soro">>)
          [] typ(t) = "LeftParen" -> grouping(toks, cur, 0)
          [] OTHER -> Err(cur, "Expect expression.")

\* Parser::primary
primary(toks, cur) ==
    LET t == peek(toks, cur)
        lit(v) == Ok(advance(toks, cur), <<"Literal", v>>)
    IN  CASE typ(t) = "False" -> lit(Bool(FALSE))
          [] typ(t) = "True" -> lit(Bool(TRUE))
          [] typ(t) = "Null" -> lit(Null)
          [] typ(t) = "Number" -> lit(Num(t[2]))
          [] typ(t) = "String" -> lit(Str(t[2]))
          [] typ(t) = "Soro" -> Ok(advance(toks, cur), <<"Soro">>)
          [] typ(t) = "LeftParen" -> grouping(toks, cur, 1)
          [] OTHER -> Err(cur, "Expect expression.")

\* unary parsing its operand with primary, so that a second prefix operator is refused
unaryFlat(toks, cur) ==
    IF typ(peek(toks, cur)) \in UnaryOps
    THEN Then(primary(toks, advance(toks, cur)), LAMBDA right:
            Ok(right.cur, <<"Unary", previous(toks, advance(toks, cur)), right.val>>))
    ELSE primary(toks, cur)

\* Parser::unary
unary(toks, cur) ==
    IF typ(peek(toks, cur)) \in UnaryOps
    THEN Then(unary(toks, advance(toks, cur)), LAMBDA right:
            Ok(right.cur, <<"Unary", previous(toks, advance(toks, cur)), right.val>>))
    ELSE primary(toks, cur)

\* the while loop of Parser::factor
factorLoop(toks, cur, expr) ==
    IF typ(peek(toks, cur)) \in FactorOps
    THEN Then(unary(toks, advance(toks, cur)), LAMBDA right:
            factorLoop(toks, right.cur,
                       <<"Binary", expr, previous(toks, advance(toks, cur)), right.val>>))
    ELSE Ok(cur, expr)

\* Parser::factor
factor(toks, cur) ==
    Then(unary(toks, cur), LAMBDA first: factorLoop(toks, first.cur, first.val))

\* the loop of term returning after its first operator
termLoopOnce(toks, cur, expr) ==
    IF typ(peek(toks, cur)) \in TermOps
    THEN Then(factor(toks, advance(toks, cur)), LAMBDA right:
            Ok(right.cur, <<"Binary", expr, previous(toks, advance(toks, cur)), right.val>>))
    ELSE Ok(cur, expr)

\* the while loop of Parser::term
termLoop(toks, cur, expr) ==
    IF typ(peek(toks, cur)) \in TermOps
    THEN Then(factor(toks, advance(toks, cur)), LAMBDA right:
            termLoop(toks, right.cur,
                     <<"Binary", expr, previous(toks, advance(toks, cur)), right.val>>))
    ELSE Ok(cur, expr)

\* Parser::term
term(toks, cur) ==
    Then(factor(toks, cur), LAMBDA first: termLoop(toks, first.cur, first.val))

\* the while loop of Parser::comparison
comparisonLoop(toks, cur, expr) ==
    IF typ(peek(toks, cur)) \in ComparisonOps
    THEN Then(term(toks, advance(toks, cur)), LAMBDA right:
            comparisonLoop(toks, right.cur,
                           <<"Binary", expr, previous(toks, advance(toks, cur)), right.val>>))
    ELSE Ok(cur, expr)

\* Parser::comparison
comparison(toks, cur) ==
    Then(term(toks, cur), LAMBDA first: comparisonLoop(toks, first.cur, first.val))

\* the while loop of Parser::equality
equalityLoop(toks, cur, expr) ==
    IF typ(peek(toks, cur)) \in EqualityOps
    THEN Then(comparison(toks, advance(toks, cur)), LAMBDA right:
            equalityLoop(toks, right.cur,
                         <<"Binary", expr, previous(toks, advance(toks, cur)), right.val>>))
    ELSE Ok(cur, expr)

\* Parser::equality
equality(toks, cur) ==
    Then(comparison(toks, cur), LAMBDA first: equalityLoop(toks, first.cur, first.val))

\* Parser::expression
expression(toks, cur) == equality(toks, cur)

\* Result<_, Error>::expect: an Err becomes a panic
expect(r, msg) == IF r.st = "err" THEN Panic(r.cur, msg) ELSE r

RECURSIVE statement(_, _), block(_, _, _)

\* Parser::print_statement
print_statement(toks, cur) ==
    Then(expect(expression(toks, cur), "expression expected"), LAMBDA value:
    Then(consume(toks, value.cur, "Semicolon", "Expect ';' after value."), LAMBDA c:
        Ok(c.cur, <<"Print", value.val>>)))

\* Parser::expression_statement
expression_statement(toks, cur) ==
    Then(expect(expression(toks, cur), "expression expected"), LAMBDA expr:
    Then(consume(toks, expr.cur, "Semicolon", "Expect ';' after value."), LAMBDA c:
        Ok(c.cur, <<"Expression", expr.val>>)))

\* Parser::faran_statement
faran_statement(toks, cur) ==
    Then(consume(toks, cur, "Semicolon", "Expect ';' after value."), LAMBDA c:
        Ok(c.cur, <<"Faran">>))

\* Parser::ke_statement
ke_statement(toks, cur) ==
    Then(consume(toks, cur, "Semicolon", "Expect ';' after value."), LAMBDA c:
        Ok(c.cur, <<"Ke">>))

\* Parser::while_statement
while_statement(toks, cur) ==
    Then(consume(toks, cur, "LeftParen", "Expect '(' after 'while'."), LAMBDA c1:
    Then(expect(expression(toks, c1.cur), "expression expected"), LAMBDA condition:
    Then(consume(toks, condition.cur, "RightParen", "Expect ')' after condition."), LAMBDA c2:
    Then(expect(statement(toks, c2.cur), "statement expected"), LAMBDA body:
        Ok(body.cur, <<"While", condition.val, body.val>>)))))

\* Parser::if_statement
if_statement(toks, cur) ==
    Then(consume(toks, cur, "LeftParen", "Expect '(' after 'if'."), LAMBDA c1:
    Then(expect(expression(toks, c1.cur), "expression expected"), LAMBDA condition:
    Then(consume(toks, condition.cur, "RightParen", "Expect ')' after condition."), LAMBDA c2:
    Then(expect(statement(toks, c2.cur), "statement expected"), LAMBDA then:
        IF typ(peek(toks, then.cur)) = "Else"
        THEN Then(expect(statement(toks, advance(toks, then.cur)), "statement expected"),
                  LAMBDA els:
                    Ok(els.cur, <<"If", condition.val, then.val, <<"Some", els.val>>>>))
        ELSE Ok(then.cur, <<"If", condition.val, then.val, <<"None">>>>)))))

\* Parser::block, with the statements parsed so far
block(toks, cur, stmts) ==
    IF ~(typ(peek(toks, cur)) = "RightBrace") /\ ~is_at_end(toks, cur)
    THEN Then(statement(toks, cur), LAMBDA stmt: block(toks, stmt.cur, Append(stmts, stmt.val)))
    ELSE Then(consume(toks, cur, "RightBrace", "Expect '}' after block."), LAMBDA c:
            Ok(c.cur, stmts))

\* Parser::statement
statement(toks, cur) ==
    LET t == typ(peek(toks, cur))
    IN  CASE t = "Print" -> print_statement(toks, advance(toks, cur))
          [] t = "LeftBrace" ->
                Then(block(toks, advance(toks, cur), <<>>), LAMBDA b: Ok(b.cur, <<"Block", b.val>>))
          [] t = "If" -> if_statement(toks, advance(toks, cur))
          [] t = "While" -> while_statement(toks, advance(toks, cur))
          [] t = "Faran" -> faran_statement(toks, advance(toks, cur))
          [] t = "Ke" -> ke_statement(toks, advance(toks, cur))
          [] OTHER -> expression_statement(toks, cur)

SyncKeywords == {"Fn", "Let", "For", "If", "While", "Print", "Return"}

RECURSIVE synchroniseLoop(_, _)
\* the while loop of Parser::synchronise
synchroniseLoop(toks, cur) ==
    IF ~is_at_end(toks, cur)
    THEN IF typ(previous(toks, cur)) = "Semicolon" THEN cur
         ELSE IF typ(peek(toks, cur)) \in SyncKeywords THEN cur
         ELSE synchroniseLoop(toks, advance(toks, cur))
    ELSE cur

\* Parser::synchronise, as the new value of Parser::current
synchronise(toks, cur) == synchroniseLoop(toks, advance(toks, cur))

(***************************************************************************)
(* Token sequences handed to the parser.  Each family is a set of bodies;  *)
(* the parser receives a body followed by EOF.                             *)
(***************************************************************************)
MaxLen == 3      \* longest body drawn freely from FreeAlphabet
MaxOps == 3      \* most binary operators in an operator chain
MaxPrefix == 3   \* longest run of prefix operators
MaxPrims == 3    \* most primaries in a row

SeqsUpTo(S, n) == UNION {[1..k -> S] : k \in 0..n}

RECURSIVE Concat(_)
Concat(ss) == IF ss = <<>> THEN <<>> ELSE Head(ss) \o Concat(Tail(ss))

FreeAlphabet ==
    {NumberTok(1), Tok("True"), Tok("LeftParen"), Tok("RightParen"),
     Tok("Minus"), Tok("Bang"), Tok("Star"), Tok("Less")}

FreeBodies == SeqsUpTo(FreeAlphabet, MaxLen)

ChainOps ==
    {"EqualEqual", "BangEqual", "Less", "GreaterEqual", "Plus", "Minus", "Star", "Slash"}

\* 1 op1 2 op2 3 ... : the i-th operand is the number i
ChainBody(ops) ==
    [i \in 1..(2 * Len(ops) + 1) |->
        IF i % 2 = 1 THEN NumberTok((i + 1) \div 2) ELSE Tok(ops[i \div 2])]

ChainBodies == {ChainBody(ops) : ops \in SeqsUpTo(ChainOps, MaxOps)}

PrimaryForms ==
    {<<NumberTok(1)>>, <<NumberTok(2)>>, <<StringTok("s")>>, <<Tok("True")>>,
     <<Tok("False")>>, <<Tok("Null")>>, <<Tok("Soro")>>,
     <<Tok("LeftParen"), Tok("True"), Tok("RightParen")>>,
     <<Tok("LeftParen"), Tok("LeftParen"), NumberTok(1), Tok("Plus"), NumberTok(2),
       Tok("RightParen"), Tok("RightParen")>>}

PrimaryBodies == {Concat(fs) : fs \in SeqsUpTo(PrimaryForms, MaxPrims)}

UnaryTails ==
    {<<>>, <<NumberTok(2)>>, <<Tok("Star"), NumberTok(2)>>, <<Tok("Minus"), NumberTok(2)>>,
     <<Tok("Bang"), Tok("False")>>}

UnaryBodies ==
    {Concat(<<[i \in 1..Len(pre) |-> Tok(pre[i])], p, t>>) :
        pre \in SeqsUpTo(UnaryOps, MaxPrefix) \ {<<>>},
        p \in {<<NumberTok(1)>>, <<Tok("True")>>,
               <<Tok("LeftParen"), Tok("Bang"), Tok("True"), Tok("RightParen")>>},
        t \in UnaryTails}

LevelOps == {"EqualEqual", "Less", "Plus", "Star"}

\* 1 a ( 2 b 3 ) c [-|!] 4 d 5, the shape of tests::test_parse_expression
GroupBodies ==
    {Concat(<<
        <<NumberTok(1), Tok(a), Tok("LeftParen"), NumberTok(2), Tok(b), NumberTok(3),
          Tok("RightParen"), Tok(c)>>,
        u, <<NumberTok(4), Tok(d), NumberTok(5)>> >>) :
        a \in LevelOps, b \in LevelOps, c \in LevelOps, d \in LevelOps,
        u \in {<<>>, <<Tok("Minus")>>, <<Tok("Bang")>>}}

ExprBodies == FreeBodies \cup ChainBodies \cup PrimaryBodies \cup UnaryBodies \cup GroupBodies

NoCall == [name |-> "none", start |-> 0, res |-> Ok(0, <<"None">>)]

\* no arena operation yet
NoOp == [name |-> "none", env |-> 0, key |-> "", val |-> Null, res |-> [st |-> "ok", val |-> Null],
         before |-> <<>>]

\* no Scanner yet
NoScanner == [tokens |-> <<>>, start |-> 0, current |-> 0, line |-> 0, st |-> "none"]
\* nothing compiled and nothing running
NoCpu ==
    [rax |-> 0, rbx |-> 0, rcx |-> 0, rdx |-> 0, flags |-> "", stack |-> <<>>, entry |-> <<>>,
     pc |-> 0, st |-> "none"]

FrontIdle == source = <<>> /\ scanner = NoScanner /\ asm = <<>> /\ cpu = NoCpu

ParserIdle ==
    /\ tokens = <<EOF>>
    /\ current = 0
    /\ statements = <<>>
    /\ pstate = "idle"
    /\ call = NoCall

ArenaIdle == envs = <<>> /\ op = NoOp

EvalIdle == kont = <<>> /\ ret = <<"None">> /\ out = <<>> /\ log = <<>>

(***************************************************************************)
(* The expression methods called directly on a Parser {tokens, current: 0},*)
(* the same method again and again as long as it returns Ok, which is how  *)
(* the unit tests drive them.                                              *)
(***************************************************************************)
InitExpr ==
    /\ tokens \in {b \o <<EOF>> : b \in ExprBodies}
    /\ current = 0
    /\ statements = <<>>
    /\ pstate = "idle"
    /\ call = NoCall
    /\ ArenaIdle
    /\ EvalIdle
    /\ FrontIdle

Called(name, r) ==
    /\ pstate = "idle"
    /\ call.name \in {"none", name}
    /\ call.res.st = "ok"
    /\ current' = r.cur
    /\ call' = [name |-> name, start |-> current, res |-> r]
    /\ UNCHANGED <<tokens, statements, pstate, arenaVars, evalVars, scanVars, asmVars>>

CallPrimary == Called("primary", primary(tokens, current))
CallUnary == Called("unary", unary(tokens, current))
CallFactor == Called("factor", factor(tokens, current))
CallTerm == Called("term", term(tokens, current))
CallComparison == Called("comparison", comparison(tokens, current))
CallEquality == Called("equality", equality(tokens, current))
CallExpression == Called("expression", expression(tokens, current))

NextExpr ==
    \/ CallPrimary
    \/ CallUnary
    \/ CallFactor
    \/ CallTerm
    \/ CallComparison
    \/ CallEquality
    \/ CallExpression

SpecExpr == InitExpr /\ [][NextExpr]_vars

(***************************************************************************)
(* Vocabulary of the properties of the expression grammar                  *)
(***************************************************************************)
\* the binary operators of precedence level L: 1 equality, 2 comparison, 3 additive, 4 multiplicative
OpsOfLevel(L) ==
    CASE L = 1 -> {"BangEqual", "EqualEqual"}
      [] L = 2 -> {"Greater", "GreaterEqual", "Less", "LessEqual"}
      [] L = 3 -> {"Minus", "Plus"}
      [] L = 4 -> {"Star", "Slash"}

Level(t) == CHOOSE L \in 1..4 : t \in OpsOfLevel(L)
HigherThan(L) == UNION {OpsOfLevel(k) : k \in (L + 1)..4}

IsBinary(e) == e[1] = "Binary"
OpLevel(e) == Level(typ(e[3]))

\* every operator has operators of its own level or tighter on its left, strictly tighter on
\* its right, and a prefix operator applies to a prefix operator or a primary
RECURSIVE WellNested(_)
WellNested(e) ==
    CASE e[1] = "Binary" ->
            /\ IsBinary(e[2]) => OpLevel(e[2]) >= OpLevel(e)
            /\ IsBinary(e[4]) => OpLevel(e[4]) > OpLevel(e)
            /\ WellNested(e[2])
            /\ WellNested(e[4])
      [] e[1] = "Unary" -> ~IsBinary(e[3]) /\ WellNested(e[3])
      [] e[1] = "Grouping" -> WellNested(e[2])
      [] OTHER -> TRUE

IsLitTok(t) == typ(t) \in {"Number", "String", "True", "False", "Null"}

\* the literal a literal token denotes
LitOf(t) ==
    CASE typ(t) = "Number" -> <<"Literal", <<"Number", t[2], 1>>>>
      [] typ(t) = "String" -> <<"Literal", <<"String", t[2]>>>>
      [] typ(t) = "True" -> <<"Literal", <<"Boolean", TRUE>>>>
      [] typ(t) = "False" -> <<"Literal", <<"Boolean", FALSE>>>>
      [] typ(t) = "Null" -> <<"Literal", <<"Null">>>>

\* the token a literal value is written as
TokOf(v) ==
    CASE v[1] = "Number" -> <<"Number", v[2]>>
      [] v[1] = "String" -> <<"String", v[2]>>
      [] v[1] = "Boolean" -> IF v[2] THEN <<"True">> ELSE <<"False">>
      [] v[1] = "Null" -> <<"Null">>

\* the tokens a tree is written as, in source order
RECURSIVE Flatten(_)
Flatten(e) ==
    CASE e[1] = "Literal" -> <<TokOf(e[2])>>
      [] e[1] = "Soro" -> <<<<"Soro">>>>
      [] e[1] = "Unary" -> <<e[2]>> \o Flatten(e[3])
      [] e[1] = "Binary" -> Flatten(e[2]) \o <<e[3]>> \o Flatten(e[4])
      [] e[1] = "Grouping" -> <<<<"LeftParen">>>> \o Flatten(e[2]) \o <<<<"RightParen">>>>

Consumed == SubSeq(tokens, call.start + 1, call.res.cur)

\* C4: the tree Parser::expression returns is written exactly as the tokens it consumed
\* (so every parenthesised sub-expression is a Grouping node) and is nested by precedence:
\* an operand of a binary operator is never a looser binary operator, and the right operand
\* is strictly tighter.
C4_Precedence ==
    (call.name = "expression" /\ call.res.st = "ok") =>
        /\ Flatten(call.res.val) = Consumed
        /\ WellNested(call.res.val)

\* 12 < (0.1 + 5) * -2 == true of the unit test: all four levels, a group and a prefix operator
C4_Witness ==
    /\ call.name = "expression"
    /\ call.res.st = "ok"
    /\ LET e == call.res.val
       IN  /\ IsBinary(e) /\ OpLevel(e) = 1
           /\ IsBinary(e[2]) /\ OpLevel(e[2]) = 2
           /\ IsBinary(e[2][4]) /\ OpLevel(e[2][4]) = 4
           /\ e[2][4][2][1] = "Grouping"
           /\ IsBinary(e[2][4][2][2]) /\ OpLevel(e[2][4][2][2]) = 3
           /\ e[2][4][4][1] = "Unary"

\* the left-nested tree of literal (op literal)* starting after the literal that ends at cur,
\* for operators of level L, as long as no tighter operator follows an operand
RECURSIVE Chain(_, _, _, _)
Chain(toks, cur, acc, L) ==
    IF /\ typ(peek(toks, cur)) \in OpsOfLevel(L)
       /\ IsLitTok(peek(toks, cur + 1))
       /\ typ(peek(toks, cur + 2)) \notin HigherThan(L)
    THEN Chain(toks, cur + 2, <<"Binary", acc, peek(toks, cur), LitOf(peek(toks, cur + 1))>>, L)
    ELSE [cur |-> cur, tree |-> acc]

LeftAssoc(name, L) ==
    (/\ call.name = name
     /\ IsLitTok(peek(tokens, call.start))
     /\ typ(peek(tokens, call.start + 1)) \notin HigherThan(L)) =>
        LET ch == Chain(tokens, call.start + 1, LitOf(peek(tokens, call.start)), L)
        IN  typ(peek(tokens, ch.cur)) \notin OpsOfLevel(L) =>
                /\ call.res.st = "ok"
                /\ call.res.cur = ch.cur
                /\ call.res.val = ch.tree

\* C5: on a1 op1 a2 op2 ... an with all operators of the method's level, each of equality,
\* comparison, term and factor returns the left-nested tree carrying each operator token and
\* leaves the cursor on the first token that is not an operator of that level.
C5_LeftAssociative ==
    /\ LeftAssoc("equality", 1)
    /\ LeftAssoc("comparison", 2)
    /\ LeftAssoc("term", 3)
    /\ LeftAssoc("factor", 4)

\* ((1 + 2) - 3) returned by term with the cursor left on `<`
C5_Witness ==
    /\ call.name = "term"
    /\ call.res.st = "ok"
    /\ IsBinary(call.res.val)
    /\ IsBinary(call.res.val[2])
    /\ typ(call.res.val[3]) = "Minus"
    /\ typ(call.res.val[2][3]) = "Plus"
    /\ typ(peek(tokens, call.res.cur)) = "Less"

\* the number of prefix operators from cursor cur on
RECURSIVE PrefixLen(_, _)
PrefixLen(toks, cur) ==
    IF typ(peek(toks, cur)) \in {"Minus", "Bang"} THEN 1 + PrefixLen(toks, cur + 1) ELSE 0

\* the operators toks[cur], ..., toks[cur + n - 1] applied to inner, the first one outermost
RECURSIVE Nest(_, _, _, _)
Nest(toks, cur, n, inner) ==
    IF n = 0 THEN inner ELSE <<"Unary", peek(toks, cur), Nest(toks, cur + 1, n - 1, inner)>>

\* C6: unary on n >= 1 prefix operators followed by a primary returns the n operators nested
\* in source order around the primary and leaves the cursor where the primary ends, which
\* for a literal is the token after it.
C6_UnaryNesting ==
    call.name = "unary" =>
        LET n == PrefixLen(tokens, call.start)
            p == primary(tokens, call.start + n)
        IN  (n >= 1 /\ p.st = "ok") =>
                /\ call.res.st = "ok"
                /\ call.res.val = Nest(tokens, call.start, n, p.val)
                /\ call.res.cur = p.cur
                /\ IsLitTok(peek(tokens, call.start + n)) => call.res.cur = call.start + n + 1

\* - ! - <literal> parsed with something left after it
C6_Witness ==
    /\ call.name = "unary"
    /\ call.res.st = "ok"
    /\ PrefixLen(tokens, call.start) = 3
    /\ call.res.val[1] = "Unary" /\ typ(call.res.val[2]) = "Minus"
    /\ call.res.val[3][1] = "Unary" /\ typ(call.res.val[3][2]) = "Bang"
    /\ call.res.val[3][3][1] = "Unary"
    /\ call.res.val[3][3][3][1] = "Literal"
    /\ ~is_at_end(tokens, call.res.cur)

\* the cursor of the `)` that closes the `(` before cursor cur, or -1
RECURSIVE Match(_, _, _)
Match(toks, cur, depth) ==
    CASE typ(peek(toks, cur)) = "EOF" -> -1
      [] typ(peek(toks, cur)) = "LeftParen" -> Match(toks, cur + 1, depth + 1)
      [] typ(peek(toks, cur)) = "RightParen" ->
            IF depth = 1 THEN cur ELSE Match(toks, cur + 1, depth - 1)
      [] OTHER -> Match(toks, cur + 1, depth)

\* C7: primary turns a literal token into the Literal of its value and consumes that one
\* token; on `(` expression `)` it returns Grouping(expression) with the cursor one past the
\* matching `)`.
C7_Primary ==
    call.name = "primary" =>
        LET s == call.start
            t == peek(tokens, s)
            e == expression(tokens, s + 1)
        IN  /\ IsLitTok(t) =>
                /\ call.res.st = "ok"
                /\ call.res.cur = s + 1
                /\ call.res.val = LitOf(t)
            /\ (/\ typ(t) = "LeftParen"
                /\ e.st = "ok"
                /\ typ(peek(tokens, e.cur)) = "RightParen") =>
                /\ e.cur = Match(tokens, s + 1, 1)
                /\ call.res.st = "ok"
                /\ call.res.cur = e.cur + 1
                /\ call.res.val = <<"Grouping", e.val>>

\* a group parsed by a second or later primary() call, with another primary after it
C7_Witness ==
    /\ call.name = "primary"
    /\ call.start > 0
    /\ call.res.st = "ok"
    /\ call.res.val[1] = "Grouping"
    /\ call.res.val[2][1] = "Grouping"
    /\ IsLitTok(peek(tokens, call.res.cur))

(***************************************************************************)
(* Parser::parse, one iteration of its `while !self.is_at_end()` loop per  *)
(* step, on programs made of up to MaxStmts statements, well-formed or not.*)
(***************************************************************************)
MaxStmts == 3    \* most statement fragments in a program

StmtForms ==
    {<<Tok("Print"), NumberTok(1), Tok("Semicolon")>>,
     <<Tok("Print"), Tok("Semicolon")>>,
     <<Tok("Print"), NumberTok(1)>>,
     <<Tok("Print"), NumberTok(1), NumberTok(2), Tok("Semicolon")>>,
     <<NumberTok(1), Tok("Plus"), NumberTok(2), Tok("Semicolon")>>,
     <<Tok("Faran"), Tok("Semicolon")>>,
     <<Tok("Ke")>>,
     <<Tok("LeftBrace"), Tok("Print"), NumberTok(2), Tok("Semicolon"), Tok("RightBrace")>>,
     <<Tok("LeftBrace"), Tok("Ke"), Tok("RightBrace")>>,
     <<Tok("If"), Tok("LeftParen"), Tok("True"), Tok("RightParen"), Tok("Print"), NumberTok(3),
       Tok("Semicolon"), Tok("Else"), Tok("Ke"), Tok("Semicolon")>>,
     <<Tok("If"), Tok("LeftParen"), Tok("RightParen"), Tok("Ke"), Tok("Semicolon")>>,
     <<Tok("If"), Tok("LeftParen"), Tok("True"), Tok("RightParen"), Tok("Faran")>>,
     <<Tok("While"), Tok("LeftParen"), Tok("True"), Tok("RightParen"), Tok("Faran"),
       Tok("Semicolon")>>,
     <<Tok("While"), Tok("True")>>}

StmtBodies == {Concat(fs) : fs \in SeqsUpTo(StmtForms, MaxStmts)}

\* main: `Parser { tokens, current: 0 }` and the entry into parse()
InitParse ==
    /\ tokens \in {b \o <<EOF>> : b \in StmtBodies}
    /\ current = 0
    /\ statements = <<>>
    /\ pstate = "parsing"
    /\ call = NoCall
    /\ ArenaIdle
    /\ EvalIdle
    /\ FrontIdle

Iteration(st) ==
    /\ pstate = "parsing"
    /\ ~is_at_end(tokens, current)
    /\ statement(tokens, current).st = st
    /\ UNCHANGED <<tokens, arenaVars, evalVars, scanVars, asmVars>>

\* an iteration whose statement() returned Ok
ParseStatement ==
    /\ Iteration("ok")
    /\ LET r == statement(tokens, current)
       IN  /\ statements' = Append(statements, r.val)
           /\ current' = r.cur
           /\ call' = [name |-> "statement", start |-> current, res |-> r]
    /\ UNCHANGED pstate

\* an iteration whose statement() returned Err: report, synchronise, continue
ParseError ==
    /\ Iteration("err")
    /\ LET r == statement(tokens, current)
       IN  /\ current' = synchronise(tokens, r.cur)
           /\ call' = [name |-> "synchronise", start |-> current, res |-> r]
    /\ UNCHANGED <<statements, pstate>>

\* an iteration in which an expect() inside statement() panicked
ParsePanic ==
    /\ Iteration("panic")
    /\ LET r == statement(tokens, current)
       IN  /\ current' = r.cur
           /\ call' = [name |-> "panic", start |-> current, res |-> r]
    /\ pstate' = "panicked"
    /\ UNCHANGED statements

\* the loop ends on EOF and parse() returns `statements`
ParseReturn ==
    /\ pstate = "parsing"
    /\ is_at_end(tokens, current)
    /\ pstate' = "done"
    /\ call' = [name |-> "return", start |-> current, res |-> Ok(current, statements)]
    /\ UNCHANGED <<tokens, current, statements, arenaVars, evalVars, scanVars, asmVars>>

NextParse ==
    \/ ParseStatement
    \/ ParseError
    \/ ParsePanic
    \/ ParseReturn

SpecParse == InitParse /\ [][NextParse]_vars

\* C2: parse() returns a statement list for every token sequence that ends with EOF; a
\* token that cannot start an expression never makes it panic.
C2_ParseNeverPanics == pstate # "panicked"

\* the first cursor after e that is at the end of input, just after a semicolon or on a
\* keyword that starts a declaration or statement
RECURSIVE Boundary(_, _)
Boundary(toks, j) ==
    IF \/ is_at_end(toks, j)
       \/ typ(previous(toks, j)) = "Semicolon"
       \/ typ(peek(toks, j)) \in {"Fn", "Let", "For", "If", "While", "Print", "Return"}
    THEN j
    ELSE Boundary(toks, j + 1)

\* C3: after a statement failed to parse with the error reported on the token at cursor e,
\* synchronise leaves the cursor just after the next semicolon or on the next statement
\* keyword (or at the end of input), and only the malformed statement is dropped: a
\* well-formed statement that starts with a statement keyword at e, right after the
\* malformed one, is where parse() resumes.
C3_OnlyMalformedDropped ==
    call.name = "synchronise" =>
        LET e == call.res.cur
        IN  /\ current = IF is_at_end(tokens, e) THEN e ELSE Boundary(tokens, e + 1)
            /\ (/\ typ(peek(tokens, e)) \in {"If", "While", "Print"}
                /\ statement(tokens, e).st = "ok") => current = e

(***************************************************************************)
(* The scope arena (environment.rs).  Scope identifiers are 0-based: the   *)
(* scope with identifier i is envs[i + 1].  An Option is <<"None">> or     *)
(* <<"Some", x>>; a HashMap is a function on the set of its keys.          *)
(***************************************************************************)
MaxScopes == 3     \* most scopes in the arena
MaxBindings == 2   \* most bindings in the arena, over all its scopes

Names == {"a", "b"}
Values == {Num(1), Num(2)}

None == <<"None">>
Some(x) == <<"Some", x>>

\* HashMap::new
EmptyMap == [k \in {} |-> Null]

\* HashMap::insert
insert(m, k, v) == [x \in DOMAIN m \cup {k} |-> IF x = k THEN v ELSE m[x]]

\* add taking over the slot of the last scope when that scope binds nothing
addRecycling(es, parent) ==
    IF Len(es) > 1 /\ DOMAIN es[Len(es)].values = {} /\ parent # <<"Some", Len(es) - 1>>
    THEN [es EXCEPT ![Len(es)] = [index |-> Len(es) - 1, parent |-> parent, values |-> @.values]]
    ELSE Append(es, [index |-> Len(es), parent |-> parent, values |-> [k \in {} |-> <<"Null">>]])

\* add dropping the parent it is given
addOrphan(es, parent) ==
    Append(es, [index |-> Len(es), parent |-> <<"None">>, values |-> [k \in {} |-> <<"Null">>]])

\* EnvironmentArena::add, as the new arena; the identifier returned is Len(es)
add(es, parent) == Append(es, [index |-> Len(es), parent |-> parent, values |-> EmptyMap])

\* define overwriting the nearest scope that already binds the name, the way assign does
RECURSIVE defineNearest(_, _, _, _)
defineNearest(es, env, name, value) ==
    IF name \in DOMAIN es[env + 1].values \/ es[env + 1].parent = None
    THEN [es EXCEPT ![env + 1].values = insert(@, name, value)]
    ELSE defineNearest(es, es[env + 1].parent[2], name, value)

\* EnvironmentArena::define, as the new arena
define(es, env, name, value) == [es EXCEPT ![env + 1].values = insert(@, name, value)]

Undefined(name) == [st |-> "err", val |-> <<"Undefined variable", name>>]

\* get looking only at the given scope
getLocal(es, env, name) ==
    IF name \in DOMAIN es[env + 1].values
    THEN [st |-> "ok", val |-> es[env + 1].values[name]]
    ELSE Undefined(name)

\* EnvironmentArena::get
RECURSIVE get(_, _, _)
get(es, env, name) ==
    IF name \in DOMAIN es[env + 1].values
    THEN [st |-> "ok", val |-> es[env + 1].values[name]]
    ELSE IF es[env + 1].parent # None
    THEN get(es, es[env + 1].parent[2], name)
    ELSE Undefined(name)

\* assign creating the binding in the root scope when no scope binds the name
RECURSIVE assignOrCreate(_, _, _, _)
assignOrCreate(es, env, name, value) ==
    IF name \in DOMAIN es[env + 1].values \/ es[env + 1].parent = None
    THEN [res |-> [st |-> "ok", val |-> Null],
          envs |-> [es EXCEPT ![env + 1].values = insert(@, name, value)]]
    ELSE assignOrCreate(es, es[env + 1].parent[2], name, value)

\* EnvironmentArena::assign, as the result and the new arena
RECURSIVE assign(_, _, _, _)
assign(es, env, name, value) ==
    IF name \in DOMAIN es[env + 1].values
    THEN [res |-> [st |-> "ok", val |-> Null],
          envs |-> [es EXCEPT ![env + 1].values = insert(@, name, value)]]
    ELSE IF es[env + 1].parent # None
    THEN assign(es, es[env + 1].parent[2], name, value)
    ELSE [res |-> Undefined(name), envs |-> es]

Scopes == 0..(Len(envs) - 1)

\* the number of bindings of the arena, over all its scopes
RECURSIVE Bindings(_)
Bindings(es) ==
    IF es = <<>> THEN 0
    ELSE Cardinality(DOMAIN es[1].values) + Bindings(Tail(es))

\* EnvironmentArena::new
InitArena ==
    /\ ParserIdle
    /\ ArenaIdle
    /\ EvalIdle
    /\ FrontIdle

\* main: `let global_env = env_arena.add(None)`
AddGlobal ==
    /\ envs = <<>>
    /\ envs' = add(envs, None)
    /\ op' = [NoOp EXCEPT !.name = "add", !.res = [st |-> "ok", val |-> Len(envs)],
                          !.before = envs]
    /\ UNCHANGED <<scanVars, asmVars, parserVars, evalVars>>

\* Stmt::execute (Block) and Fun::call: add(Some(scope)) for an existing scope
AddScope ==
    /\ Len(envs) < MaxScopes
    /\ \E parent \in Scopes :
        /\ envs' = add(envs, Some(parent))
        /\ op' = [NoOp EXCEPT !.name = "add", !.env = parent,
                              !.res = [st |-> "ok", val |-> Len(envs)], !.before = envs]
    /\ UNCHANGED <<scanVars, asmVars, parserVars, evalVars>>

Define ==
    /\ \E env \in Scopes, name \in Names, value \in Values :
        /\ Bindings(define(envs, env, name, value)) <= MaxBindings
        /\ envs' = define(envs, env, name, value)
        /\ op' = [name |-> "define", env |-> env, key |-> name, val |-> value,
                  res |-> [st |-> "ok", val |-> Null], before |-> envs]
    /\ UNCHANGED <<scanVars, asmVars, parserVars, evalVars>>

Get ==
    /\ \E env \in Scopes, name \in Names :
        /\ envs' = envs
        /\ op' = [name |-> "get", env |-> env, key |-> name, val |-> Null,
                  res |-> get(envs, env, name), before |-> envs]
    /\ UNCHANGED <<scanVars, asmVars, parserVars, evalVars>>

Assign ==
    /\ \E env \in Scopes, name \in Names, value \in Values :
        /\ envs' = assign(envs, env, name, value).envs
        /\ op' = [name |-> "assign", env |-> env, key |-> name, val |-> value,
                  res |-> assign(envs, env, name, value).res, before |-> envs]
    /\ UNCHANGED <<scanVars, asmVars, parserVars, evalVars>>

NextArena ==
    \/ AddGlobal
    \/ AddScope
    \/ Define
    \/ Get
    \/ Assign

SpecArena == InitArena /\ [][NextArena]_vars

\* the scopes from env up to the root, nearest first
RECURSIVE ChainOf(_, _)
ChainOf(es, env) ==
    IF es[env + 1].parent = <<"None">> THEN <<env>>
    ELSE <<env>> \o ChainOf(es, es[env + 1].parent[2])

\* the positions in the chain of env of the scopes that bind name
Binders(es, env, name) ==
    {i \in 1..Len(ChainOf(es, env)) : name \in DOMAIN es[ChainOf(es, env)[i] + 1].values}

\* the nearest scope on the chain of env that binds name
Nearest(es, env, name) ==
    ChainOf(es, env)[CHOOSE i \in Binders(es, env, name) :
                        \A j \in Binders(es, env, name) : i <= j]

\* C8: get returns the value bound in the nearest scope of the chain that binds the name,
\* the undefined-variable error naming the identifier exactly when no scope of the chain
\* binds it, and leaves the arena as it was.
C8_GetNearest ==
    op.name = "get" =>
        /\ envs = op.before
        /\ IF Binders(op.before, op.env, op.key) = {}
           THEN op.res.st = "err" /\ op.res.val = <<"Undefined variable", op.key>>
           ELSE /\ op.res.st = "ok"
                /\ op.res.val = op.before[Nearest(op.before, op.env, op.key) + 1].values[op.key]

\* a get from a grandchild answered by its parent, which shadows the root's other value
C8_Witness ==
    /\ op.name = "get"
    /\ Len(ChainOf(envs, op.env)) = 3
    /\ Binders(envs, op.env, op.key) = {2, 3}
    /\ envs[ChainOf(envs, op.env)[2] + 1].values[op.key]
         # envs[ChainOf(envs, op.env)[3] + 1].values[op.key]

\* es with the binding of name in scope s set to v and nothing else changed
WithBinding(es, s, name, v) ==
    [i \in 1..Len(es) |->
        IF i = s + 1
        THEN [index |-> es[i].index, parent |-> es[i].parent,
              values |-> [k \in DOMAIN es[i].values \cup {name} |->
                            IF k = name THEN v ELSE es[i].values[k]]]
        ELSE es[i]]

\* C9: assign overwrites the binding in the nearest scope of the chain that binds the name
\* and nothing else; when no scope of the chain binds it, it returns the undefined-variable
\* error and the arena is as it was.
C9_AssignNearest ==
    op.name = "assign" =>
        IF Binders(op.before, op.env, op.key) = {}
        THEN /\ op.res.st = "err"
             /\ op.res.val = <<"Undefined variable", op.key>>
             /\ envs = op.before
        ELSE /\ op.res.st = "ok"
             /\ envs = WithBinding(op.before, Nearest(op.before, op.env, op.key), op.key, op.val)

\* an assign from a child that changed the root's binding, and one that found no binding
C9_Witness ==
    /\ op.name = "assign"
    /\ op.res.st = "ok"
    /\ Nearest(op.before, op.env, op.key) # op.env
    /\ envs # op.before
    /\ \E other \in Names \ {op.key} : other \in DOMAIN envs[op.env + 1].values

C9_WitnessUndefined ==
    /\ op.name = "assign"
    /\ op.res.st = "err"
    /\ Len(ChainOf(envs, op.env)) > 1

\* C10: define sets the binding of the name in the given scope and changes nothing else,
\* so a get from the enclosing scope returns what it returned before.
C10_DefineLocal ==
    op.name = "define" =>
        /\ envs = WithBinding(op.before, op.env, op.key, op.val)
        /\ op.before[op.env + 1].parent # <<"None">> =>
                \A name \in Names :
                    get(envs, op.before[op.env + 1].parent[2], name)
                        = get(op.before, op.before[op.env + 1].parent[2], name)

\* a child scope defined a name that its parent binds to another value
C10_Witness ==
    /\ op.name = "define"
    /\ envs[op.env + 1].parent # <<"None">>
    /\ op.key \in DOMAIN envs[envs[op.env + 1].parent[2] + 1].values
    /\ envs[envs[op.env + 1].parent[2] + 1].values[op.key] # op.val

(***************************************************************************)
(* The evaluator (ast.rs).  An f64 is <<"Number", n, d>>: n/d in lowest    *)
(* terms with d > 0 for a finite value (zero is 0/1), n = 0 and d = -1 for *)
(* negative zero, d = 0 for the infinities (n = 1, n = -1) and NaN (n = 0).*)
(* The arithmetic is exact, as the f64 arithmetic is on the integers and   *)
(* the dyadic fractions the literals 0, 1, 2 produce.                      *)
(***************************************************************************)
MaxOut == 2   \* an execute call starts with fewer lines printed than this
MaxLog == 2   \* an execute call starts with fewer While exits logged than this

NaN == <<"Number", 0, 0>>
Inf(s) == <<"Number", s, 0>>
Zero(s) == IF s < 0 THEN <<"Number", 0, -1>> ELSE <<"Number", 0, 1>>

IsNaN(a) == a[2] = 0 /\ a[3] = 0
IsInf(a) == a[2] # 0 /\ a[3] = 0
IsZero(a) == a[2] = 0 /\ a[3] # 0
Sign(a) == IF a[3] = -1 \/ a[2] < 0 THEN -1 ELSE 1
Abs(i) == IF i < 0 THEN -i ELSE i

RECURSIVE Gcd(_, _)
Gcd(a, b) == IF b = 0 THEN a ELSE Gcd(b, a % b)

\* the f64 n/d, for d > 0
Ratio(n, d) ==
    IF n = 0 THEN Zero(1)
    ELSE <<"Number", n \div Gcd(Abs(n), d), d \div Gcd(Abs(n), d)>>

\* f64: -a
neg(a) ==
    IF IsNaN(a) THEN NaN
    ELSE IF IsZero(a) THEN Zero(-Sign(a))
    ELSE <<"Number", -a[2], a[3]>>

\* f64: a + b
fadd(a, b) ==
    IF IsNaN(a) \/ IsNaN(b) THEN NaN
    ELSE IF IsInf(a) /\ IsInf(b) THEN (IF a = b THEN a ELSE NaN)
    ELSE IF IsInf(a) THEN a
    ELSE IF IsInf(b) THEN b
    ELSE IF IsZero(a) /\ IsZero(b) THEN (IF Sign(a) = -1 /\ Sign(b) = -1 THEN Zero(-1) ELSE Zero(1))
    ELSE IF IsZero(a) THEN b
    ELSE IF IsZero(b) THEN a
    ELSE Ratio(a[2] * b[3] + b[2] * a[3], a[3] * b[3])

\* f64: a * b
fmul(a, b) ==
    IF IsNaN(a) \/ IsNaN(b) THEN NaN
    ELSE IF (IsInf(a) /\ IsZero(b)) \/ (IsZero(a) /\ IsInf(b)) THEN NaN
    ELSE IF IsInf(a) \/ IsInf(b) THEN Inf(Sign(a) * Sign(b))
    ELSE IF IsZero(a) \/ IsZero(b) THEN Zero(Sign(a) * Sign(b))
    ELSE Ratio(a[2] * b[2], a[3] * b[3])

\* f64: a / b
fdiv(a, b) ==
    IF IsNaN(a) \/ IsNaN(b) THEN NaN
    ELSE IF (IsInf(a) /\ IsInf(b)) \/ (IsZero(a) /\ IsZero(b)) THEN NaN
    ELSE IF IsInf(a) \/ IsZero(b) THEN Inf(Sign(a) * Sign(b))
    ELSE IF IsInf(b) \/ IsZero(a) THEN Zero(Sign(a) * Sign(b))
    ELSE Ratio(Sign(a) * Sign(b) * Abs(a[2]) * b[3], a[3] * Abs(b[2]))

\* f64: a < b
flt(a, b) ==
    /\ ~IsNaN(a)
    /\ ~IsNaN(b)
    /\ IF IsInf(a) THEN a[2] = -1 /\ b # a
       ELSE IF IsInf(b) THEN b[2] = 1
       ELSE a[2] * Abs(b[3]) < b[2] * Abs(a[3])

\* equality of the bits of a and b
feqBits(a, b) == a = b

\* f64: a == b
feq(a, b) ==
    /\ ~IsNaN(a)
    /\ ~IsNaN(b)
    /\ a = b \/ (IsZero(a) /\ IsZero(b))

\* the decimal digits of r/d after the point, for r < d
RECURSIVE FracDigits(_, _)
FracDigits(r, d) ==
    IF r = 0 THEN ""
    ELSE ToString((10 * r) \div d) \o FracDigits((10 * r) % d, d)

\* `{}` of an f64
fmtNumber(a) ==
    IF IsNaN(a) THEN "NaN"
    ELSE IF IsInf(a) THEN (IF a[2] < 0 THEN "-inf" ELSE "inf")
    ELSE IF IsZero(a) THEN (IF Sign(a) < 0 THEN "-0" ELSE "0")
    ELSE IF a[3] = 1 THEN ToString(a[2])
    ELSE (IF a[2] < 0 THEN "-" ELSE "") \o ToString(Abs(a[2]) \div a[3]) \o "."
            \o FracDigits(Abs(a[2]) % a[3], a[3])

\* Display for Value
Display(v) ==
    CASE v[1] = "String" -> v[2]
      [] v[1] = "Number" -> fmtNumber(v)
      [] v[1] = "Boolean" -> (IF v[2] THEN "true" ELSE "false")
      [] v[1] = "Null" -> "null"

\* a unary operator that rejects the operand kinds it does not support
evaluateUnaryStrict(o, r) ==
    CASE o = "Minus" -> (IF r[1] = "Number" THEN neg(r) ELSE <<"Error", "Operand must be a number.">>)
      [] o = "Bang" -> (IF r[1] = "Boolean" THEN Bool(~r[2]) ELSE <<"Error", "Operand must be a boolean.">>)
      [] OTHER -> Null

\* Expr::evaluate, the Unary arm's match on the operator
evaluateUnary(o, r) ==
    CASE o = "Minus" -> (IF r[1] = "Number" THEN neg(r) ELSE Null)
      [] o = "Bang" -> Bool(~(CASE r[1] = "Null" -> FALSE
                                [] r[1] = "Boolean" -> r[2]
                                [] OTHER -> TRUE))
      [] OTHER -> Null

\* Expr::evaluate, the Binary arm's match on the operator
evaluateBinary(o, l, r) ==
    LET nums == l[1] = "Number" /\ r[1] = "Number"
        same == l[1] = r[1]
    IN  CASE o = "Minus" -> (IF nums THEN fadd(l, neg(r)) ELSE Null)
          [] o = "Slash" -> (IF nums THEN fdiv(l, r) ELSE Null)
          [] o = "Star" -> (IF nums THEN fmul(l, r) ELSE Null)
          [] o = "Plus" ->
                (IF nums THEN fadd(l, r)
                 ELSE IF l[1] = "String" /\ r[1] = "String" THEN Str(l[2] \o r[2])
                 ELSE IF l[1] = "String" /\ r[1] = "Number" THEN Str(l[2] \o fmtNumber(r))
                 ELSE IF l[1] = "Number" /\ r[1] = "String" THEN Str(fmtNumber(l) \o r[2])
                 ELSE Null)
          [] o = "Greater" -> Bool(nums /\ flt(r, l))
          [] o = "GreaterEqual" -> Bool(nums /\ (flt(r, l) \/ feq(l, r)))
          [] o = "Less" -> Bool(nums /\ flt(l, r))
          [] o = "LessEqual" -> Bool(nums /\ (flt(l, r) \/ feq(l, r)))
          [] o = "BangEqual" -> Bool(~(same /\ IF nums THEN feq(l, r) ELSE l = r))
          [] o = "EqualEqual" -> Bool(same /\ IF nums THEN feq(l, r) ELSE l = r)
          [] OTHER -> Null

\* Expr::evaluate
RECURSIVE evaluate(_)
evaluate(e) ==
    CASE e[1] = "Binary" -> evaluateBinary(typ(e[3]), evaluate(e[2]), evaluate(e[4]))
      [] e[1] = "Grouping" -> evaluate(e[2])
      [] e[1] = "Literal" -> e[2]
      [] e[1] = "Unary" -> evaluateUnary(typ(e[2]), evaluate(e[3]))
      [] e[1] = "Soro" -> Null

\* truthiness with only false and null falsy
truthyLox(v) ==
    CASE v[1] = "Boolean" -> v[2]
      [] v[1] = "Null" -> FALSE
      [] OTHER -> TRUE

\* Expr::is_true, the match on the value
truthy(v) ==
    CASE v[1] = "Boolean" -> v[2]
      [] v[1] = "Null" -> FALSE
      [] v[1] = "String" -> v[2] # ""
      [] v[1] = "Number" -> ~feq(v, Zero(1))

\* Expr::is_true
is_true(e) == truthy(evaluate(e))

(***************************************************************************)
(* Stmt::execute, one step at a time.  kont is the stack of the execute    *)
(* calls in progress, the innermost last; a call is the statement, the     *)
(* environment it was given, where it stands (pc), the number of children  *)
(* it has started (i) and, for a Block, its new_env (scope).  ret is what  *)
(* the call that returned last returned.  out is the lines printed.  log   *)
(* has one entry for each While that returned: what its last condition     *)
(* test gave, what it returned and how many times its body ran.            *)
(***************************************************************************)
Lit(v) == <<"Literal", v>>

\* conditions and printed expressions: every kind of value, truthy and falsy
Conds ==
    { Lit(Bool(TRUE)), Lit(Bool(FALSE)), Lit(Num(0)), Lit(Num(2)), Lit(Str("")), Lit(Str("a")),
      <<"Soro">>,
      <<"Unary", Tok("Bang"), Lit(Null)>>,
      <<"Unary", Tok("Minus"), Lit(Num(0))>>,
      <<"Binary", Lit(Num(0)), Tok("Slash"), Lit(Num(0))>>,
      <<"Binary", Lit(Num(1)), Tok("Less"), Lit(Num(2))>>,
      <<"Binary", Lit(Num(1)), Tok("Slash"), <<"Unary", Tok("Minus"), Lit(Num(0))>>>> }

Leaves ==
    { <<"Print", Lit(Num(1))>>, <<"Print", <<"Binary", Lit(Str("a")), Tok("Plus"), Lit(Num(2))>>>>,
      <<"Expression", Lit(Num(2))>>, <<"Faran">>, <<"Ke">> }

Bodies ==
    Leaves
      \cup { <<"Block", <<a, b>>>> : a \in {<<"Print", Lit(Num(1))>>}, b \in Leaves }
      \cup { <<"While", c, <<"Print", Lit(Num(1))>>>> : c \in {Lit(Bool(TRUE)), Lit(Bool(FALSE))} }

\* the statements execute is called with
Stmts ==
    Bodies
      \cup { <<"While", c, b>> : c \in Conds, b \in Bodies }
      \cup { <<"If", c, b, e>> : c \in Conds,
                                b \in {<<"Print", Lit(Num(1))>>, <<"Ke">>},
                                e \in {<<"None">>, <<"Some", <<"Faran">>>>,
                                       <<"Some", <<"While", Lit(Bool(TRUE)), <<"Ke">>>>>>} }
      \cup { <<"Block", <<>>>>, <<"Block", <<<<"While", Lit(Bool(TRUE)), <<"Ke">>>>, <<"Print", Lit(Num(1))>>>>>> }

\* a call of execute(stmt, env) that has not started
Frame(stmt, env) == [stmt |-> stmt, env |-> env, pc |-> "start", i |-> 0, scope |-> env]

Top == kont[Len(kont)]
Running(kind, pc) == kont # <<>> /\ Top.stmt[1] = kind /\ Top.pc = pc

\* the call on top returns
Return == SubSeq(kont, 1, Len(kont) - 1)
\* the call on top becomes f and calls execute(stmt, ..) in the environment f was called in
CallOutside(f, stmt, env) == Append([kont EXCEPT ![Len(kont)] = f], Frame(stmt, f.env))

\* the call on top becomes f and calls execute(stmt, env)
Call(f, stmt, env) == Append([kont EXCEPT ![Len(kont)] = f], Frame(stmt, env))

InitEval ==
    /\ ParserIdle
    /\ ArenaIdle
    /\ EvalIdle
    /\ FrontIdle

\* a call of Stmt::execute from outside, in a scope of the arena
Execute ==
    /\ kont = <<>>
    /\ Len(envs) < MaxScopes
    /\ Len(out) < MaxOut
    /\ Len(log) < MaxLog
    /\ \E stmt \in Stmts, env \in Scopes :
        kont' = <<Frame(stmt, env)>>
    /\ ret' = None
    /\ UNCHANGED <<scanVars, asmVars, parserVars, arenaVars, out, log>>

\* Stmt::Block: `let new_env = env_arena.add(Some(environment))`
BlockEnter ==
    /\ Running("Block", "start")
    /\ envs' = add(envs, Some(Top.env))
    /\ op' = [NoOp EXCEPT !.name = "add", !.env = Top.env,
                          !.res = [st |-> "ok", val |-> Len(envs)], !.before = envs]
    /\ kont' = [kont EXCEPT ![Len(kont)] = [Top EXCEPT !.scope = Len(envs), !.pc = "loop"]]
    /\ UNCHANGED <<scanVars, asmVars, parserVars, ret, out, log>>

\* Stmt::Block: `for stmt in statements`, the call of stmt.execute or the `None` after the loop
BlockLoop ==
    /\ Running("Block", "loop")
    /\ IF Top.i < Len(Top.stmt[2])
       THEN /\ kont' = Call([Top EXCEPT !.i = @ + 1, !.pc = "ret"],
                            Top.stmt[2][Top.i + 1], Top.scope)
            /\ ret' = ret
       ELSE /\ kont' = Return
            /\ ret' = None
    /\ UNCHANGED <<scanVars, asmVars, parserVars, arenaVars, out, log>>

\* Stmt::Block: `if let Some(v) = stmt.execute(..) { return Some(v); }`
BlockReturn ==
    /\ Running("Block", "ret")
    /\ IF ret # None
       THEN kont' = Return
       ELSE kont' = [kont EXCEPT ![Len(kont)] = [Top EXCEPT !.pc = "loop"]]
    /\ UNCHANGED <<scanVars, asmVars, parserVars, arenaVars, ret, out, log>>

\* Stmt::Expression: the value of the expression is dropped
ExecExpression ==
    /\ Running("Expression", "start")
    /\ kont' = Return
    /\ ret' = None
    /\ UNCHANGED <<scanVars, asmVars, parserVars, arenaVars, out, log>>

\* Stmt::Print
ExecPrint ==
    /\ Running("Print", "start")
    /\ out' = Append(out, Display(evaluate(Top.stmt[2])))
    /\ kont' = Return
    /\ ret' = None
    /\ UNCHANGED <<scanVars, asmVars, parserVars, arenaVars, log>>

\* Stmt::If: the test, and the call of then.execute or stmt.execute
IfTest ==
    /\ Running("If", "start")
    /\ IF is_true(Top.stmt[2])
       THEN kont' = Call([Top EXCEPT !.i = 1, !.pc = "ret"], Top.stmt[3], Top.env) /\ ret' = ret
       ELSE IF Top.stmt[4] # None
       THEN kont' = Call([Top EXCEPT !.i = 1, !.pc = "ret"], Top.stmt[4][2], Top.env) /\ ret' = ret
       ELSE kont' = Return /\ ret' = None
    /\ UNCHANGED <<scanVars, asmVars, parserVars, arenaVars, out, log>>

\* Stmt::If: `return then.execute(..)`, `return stmt.execute(..)`
IfReturn ==
    /\ Running("If", "ret")
    /\ kont' = Return
    /\ UNCHANGED <<scanVars, asmVars, parserVars, arenaVars, ret, out, log>>

\* Stmt::While: `while condition.is_true(..)`, the call of body.execute or the `None` after the loop
WhileTest ==
    /\ Running("While", "start")
    /\ IF is_true(Top.stmt[2])
       THEN /\ kont' = Call([Top EXCEPT !.i = @ + 1, !.pc = "ret"], Top.stmt[3], Top.env)
            /\ UNCHANGED <<ret, log>>
       ELSE /\ kont' = Return
            /\ ret' = None
            /\ log' = Append(log, [cond |-> FALSE, ret |-> None, bodies |-> Top.i])
    /\ UNCHANGED <<scanVars, asmVars, parserVars, arenaVars, out>>

\* Stmt::While: `return body.execute(..)`
WhileReturn ==
    /\ Running("While", "ret")
    /\ kont' = Return
    /\ log' = Append(log, [cond |-> TRUE, ret |-> ret, bodies |-> Top.i])
    /\ UNCHANGED <<scanVars, asmVars, parserVars, arenaVars, ret, out>>

\* Stmt::Faran
ExecFaran ==
    /\ Running("Faran", "start")
    /\ kont' = Return
    /\ ret' = None
    /\ UNCHANGED <<scanVars, asmVars, parserVars, arenaVars, out, log>>

\* Stmt::Ke
ExecKe ==
    /\ Running("Ke", "start")
    /\ kont' = Return
    /\ ret' = None
    /\ UNCHANGED <<scanVars, asmVars, parserVars, arenaVars, out, log>>

NextEval ==
    \/ AddGlobal
    \/ Execute
    \/ BlockEnter
    \/ BlockLoop
    \/ BlockReturn
    \/ ExecExpression
    \/ ExecPrint
    \/ IfTest
    \/ IfReturn
    \/ WhileTest
    \/ WhileReturn
    \/ ExecFaran
    \/ ExecKe

SpecEval == InitEval /\ [][NextEval]_vars

\* C1: a While stops only when its condition tests falsy or its body yields a completion
\* value: every While that returned did so after a falsy test or with the body's value.
C1_WhileStopsOnlyWhenDone ==
    \A k \in 1..Len(log) : log[k].cond = FALSE \/ log[k].ret # <<"None">>

(***************************************************************************)
(* Fun::call (ast.rs).  A function value is <<"Code", name, params, body,  *)
(* closure>> or <<"Native", name, params, callee>>; the parameters are the *)
(* lexemes of their tokens and a native callee is the value it returns.    *)
(* A call in progress is the entry <<"Call", fun, arguments>> of kont; its *)
(* scope is the `env` of the code.  ret is <<"Value", v>> after a call     *)
(* that returned v and <<"Panic", message>> after one that panicked.       *)
(***************************************************************************)
\* the scope a call runs in, dynamically scoped: the child of the newest scope
callScopeDynamic(es, closure) == add(es, Some(Len(es) - 1))

\* Fun::call: `let env = env_arena.add(Some(*closure))`
callScope(es, closure) == add(es, Some(closure))

\* Fun::call: `for (i, el) in params.iter().enumerate() { env_arena.define(env, .., arguments.get(i)..) }`
RECURSIVE defineParams(_, _, _, _, _)
defineParams(es, env, params, arguments, i) ==
    IF i > Len(params) THEN es
    ELSE defineParams(define(es, env, params[i], arguments[i]), env, params, arguments, i + 1)

FunBodies == { <<"Print", Lit(Num(1))>> }

\* the parameter lists and argument vectors of the calls
CallShapes ==
    { <<<<"a">>, <<Num(2)>>>>, <<<<"a", "b">>, <<Num(2), Num(1)>>>>, <<<<"a">>, <<>>>> }

\* the function values that can be called
Funs ==
    { <<"Code", "f", sh[1], b, c>> : sh \in CallShapes, b \in FunBodies, c \in Scopes }
      \cup { <<"Native", "clock", <<>>, Num(1)>> }

InitCall ==
    /\ ParserIdle
    /\ ArenaIdle
    /\ EvalIdle
    /\ FrontIdle

\* the arena is being set up: no call of Fun::call has been made
SetUp == kont = <<>> /\ ret = None /\ out = <<>>

\* a call of Fun::call from outside, once the arena is set up
CallFun ==
    /\ SetUp
    /\ 0 < Len(envs)
    /\ Len(envs) < MaxScopes
    /\ \E fun \in Funs, sh \in CallShapes :
        /\ fun[1] = "Code" => fun[3] = sh[1]
        /\ kont' = <<Frame(<<"Call", fun, sh[2]>>, 0)>>
    /\ ret' = None
    /\ UNCHANGED <<scanVars, asmVars, parserVars, arenaVars, out, log>>

\* Fun::call (Code): the new scope, the parameters, the call of body.execute
CallCode ==
    /\ Running("Call", "start")
    /\ Top.stmt[2][1] = "Code"
    /\ Len(Top.stmt[2][3]) <= Len(Top.stmt[3])
    /\ envs' = defineParams(callScope(envs, Top.stmt[2][5]), Len(envs),
                            Top.stmt[2][3], Top.stmt[3], 1)
    /\ op' = [NoOp EXCEPT !.name = "call", !.env = Top.stmt[2][5],
                          !.res = [st |-> "ok", val |-> Len(envs)], !.before = envs]
    /\ kont' = Call([Top EXCEPT !.scope = Len(envs), !.i = 1, !.pc = "ret"],
                    Top.stmt[2][4], Len(envs))
    /\ UNCHANGED <<scanVars, asmVars, parserVars, ret, out, log>>

\* Fun::call (Code): `arguments.get(i).unwrap()` with fewer arguments than parameters
CallPanic ==
    /\ Running("Call", "start")
    /\ Top.stmt[2][1] = "Code"
    /\ Len(Top.stmt[2][3]) > Len(Top.stmt[3])
    /\ envs' = defineParams(callScope(envs, Top.stmt[2][5]), Len(envs),
                            SubSeq(Top.stmt[2][3], 1, Len(Top.stmt[3])), Top.stmt[3], 1)
    /\ op' = [NoOp EXCEPT !.name = "call", !.env = Top.stmt[2][5],
                          !.res = [st |-> "panic", val |-> Len(envs)], !.before = envs]
    /\ kont' = <<>>
    /\ ret' = <<"Panic", "called Option::unwrap() on a None value">>
    /\ UNCHANGED <<scanVars, asmVars, parserVars, out, log>>

\* Fun::call (Code): `if let Some(v) = body.execute(..) { return v; } Value::Null`
CallReturn ==
    /\ Running("Call", "ret")
    /\ kont' = Return
    /\ ret' = <<"Value", IF ret # None THEN ret[2] ELSE Null>>
    /\ UNCHANGED <<scanVars, asmVars, parserVars, arenaVars, out, log>>

\* Fun::call (Native): `(callee)(arguments)`
CallNative ==
    /\ Running("Call", "start")
    /\ Top.stmt[2][1] = "Native"
    /\ kont' = Return
    /\ ret' = <<"Value", Top.stmt[2][4]>>
    /\ UNCHANGED <<scanVars, asmVars, parserVars, arenaVars, out, log>>

NextCall ==
    \/ AddGlobal
    \/ SetUp /\ AddScope
    \/ SetUp /\ Define
    \/ SetUp /\ Assign
    \/ CallFun
    \/ CallCode
    \/ CallPanic
    \/ CallReturn
    \/ CallNative
    \/ ExecPrint

SpecCall == InitCall /\ [][NextCall]_vars

\* a call of a Code function has just entered its body
Entered ==
    /\ op.name = "call"
    /\ op.res.st = "ok"
    /\ Len(kont) = 2
    /\ kont[2].pc = "start"

\* C11: a call of a Code function adds exactly one scope, the child of the scope the
\* function captured; that scope binds each parameter to its argument and nothing else, the
\* body starts in it, and every other name resolves there as it resolves in the captured
\* scope at the time of the call.
C11_CallScope ==
    Entered =>
        LET fun == kont[1].stmt[2]
            arguments == kont[1].stmt[3]
            new == Len(op.before)
        IN  /\ Len(envs) = Len(op.before) + 1
            /\ SubSeq(envs, 1, Len(op.before)) = op.before
            /\ envs[new + 1].parent = <<"Some", fun[5]>>
            /\ DOMAIN envs[new + 1].values = {fun[3][i] : i \in 1..Len(fun[3])}
            /\ \A i \in 1..Len(fun[3]) : envs[new + 1].values[fun[3][i]] = arguments[i]
            /\ kont[2].stmt = fun[4]
            /\ kont[2].env = new
            /\ \A name \in Names \ {fun[3][i] : i \in 1..Len(fun[3])} :
                    get(envs, new, name) = get(op.before, fun[5], name)

\* a call whose captured scope is not the newest one, and binds a name that is no parameter
\* and that was assigned to after it was defined
C11_Witness ==
    /\ Entered
    /\ kont[1].stmt[2][5] # Len(op.before) - 1
    /\ Len(kont[1].stmt[2][3]) = 1
    /\ \E name \in Names \ {kont[1].stmt[2][3][1]} :
        /\ get(envs, Len(op.before), name).st = "ok"
        /\ get(envs, Len(op.before), name) # get(envs, Len(op.before) - 1, name)

(***************************************************************************)
(* Expr::evaluate called on one operator over operands of every kind.  The *)
(* call in progress is the entry <<"Evaluate", e>> of kont, and ret is     *)
(* <<"Value", v>> for the value v it returns.                              *)
(***************************************************************************)
\* operands: the literals of every kind, and the numbers only an operator produces
Operands ==
    { Lit(Str("")), Lit(Str("a")), Lit(Num(0)), Lit(Num(1)), Lit(Num(2)),
      Lit(Bool(TRUE)), Lit(Bool(FALSE)), Lit(Null), <<"Soro">>,
      <<"Unary", Tok("Minus"), Lit(Num(1))>>,
      <<"Unary", Tok("Minus"), Lit(Num(0))>>,
      <<"Binary", Lit(Num(1)), Tok("Slash"), Lit(Num(0))>>,
      <<"Binary", Lit(Num(0)), Tok("Slash"), Lit(Num(0))>> }

BinaryOps == EqualityOps \cup ComparisonOps \cup TermOps \cup FactorOps

OpExprs ==
    { <<"Binary", l, Tok(o), r>> : l \in Operands, o \in BinaryOps, r \in Operands }
      \cup { <<"Unary", Tok(o), r>> : o \in UnaryOps, r \in Operands }
      \cup { <<"Grouping", e>> : e \in Operands }

InitEvaluate ==
    /\ ParserIdle
    /\ ArenaIdle
    /\ EvalIdle
    /\ FrontIdle

\* a call of Expr::evaluate from outside, up to its return value
Evaluate ==
    /\ kont = <<>>
    /\ \E e \in OpExprs :
        /\ kont' = <<[Frame(<<"Evaluate", e>>, 0) EXCEPT !.pc = "ret"]>>
        /\ ret' = <<"Value", evaluate(e)>>
    /\ UNCHANGED <<scanVars, asmVars, parserVars, arenaVars, out, log>>

\* the caller takes the value
EvaluateReturn ==
    /\ Running("Evaluate", "ret")
    /\ kont' = Return
    /\ UNCHANGED <<scanVars, asmVars, parserVars, arenaVars, ret, out, log>>

NextEvaluate ==
    \/ Evaluate
    \/ EvaluateReturn

SpecEvaluate == InitEvaluate /\ [][NextEvaluate]_vars

\* evaluate has returned the value of operator o over two operands
Evaluated(o) ==
    /\ Running("Evaluate", "ret")
    /\ Top.stmt[2][1] = "Binary"
    /\ typ(Top.stmt[2][3]) = o
\* the values of the operands of the expression evaluated
LeftValue == evaluate(Top.stmt[2][2])
RightValue == evaluate(Top.stmt[2][4])
IsKind(v, k) == v[1] = k

\* C12: l + r is the numeric sum of two numbers and, when at least one operand is a string,
\* the printed form of the left operand followed by the printed form of the right one.
C12_PlusConcatenates ==
    Evaluated("Plus") =>
        /\ (IsKind(LeftValue, "Number") /\ IsKind(RightValue, "Number"))
                => ret[2] = fadd(LeftValue, RightValue)
        /\ (IsKind(LeftValue, "String") \/ IsKind(RightValue, "String"))
                => ret[2] = <<"String", Display(LeftValue) \o Display(RightValue)>>

ValueKinds == {"String", "Number", "Boolean", "Null"}

\* C13: evaluate always returns a Value; -, * and / with a non-number operand and + with
\* operand kinds it does not support give Null, <, <=, > and >= with a non-number operand
\* give Boolean(false), and unary - of a non-number gives Null.
C13_NoOperandKindFails ==
    Running("Evaluate", "ret") =>
        /\ ret[1] = "Value"
        /\ ret[2][1] \in ValueKinds
        /\ \A o \in {"Minus", "Star", "Slash"} :
                (Evaluated(o) /\ ~(IsKind(LeftValue, "Number") /\ IsKind(RightValue, "Number")))
                    => ret[2] = <<"Null">>
        /\ (Evaluated("Plus") /\ ~(/\ LeftValue[1] \in {"Number", "String"}
                                   /\ RightValue[1] \in {"Number", "String"}))
                    => ret[2] = <<"Null">>
        /\ \A o \in ComparisonOps :
                (Evaluated(o) /\ ~(IsKind(LeftValue, "Number") /\ IsKind(RightValue, "Number")))
                    => ret[2] = <<"Boolean", FALSE>>
        /\ (Top.stmt[2][1] = "Unary" /\ typ(Top.stmt[2][2]) = "Minus"
                /\ ~IsKind(evaluate(Top.stmt[2][3]), "Number"))
                    => ret[2] = <<"Null">>

\* a comparison of a string with a number has been evaluated
C13_Witness ==
    /\ Evaluated("LessEqual")
    /\ IsKind(LeftValue, "String")
    /\ IsKind(RightValue, "Number")
    /\ ret = <<"Value", <<"Boolean", FALSE>>>>

\* C14, as stated: l == r is true exactly when l and r have the same kind and the same
\* content, and l != r is its negation.
C14_EqualityStructural ==
    /\ Evaluated("EqualEqual") => ret[2] = <<"Boolean", LeftValue = RightValue>>
    /\ Evaluated("BangEqual") => ret[2] = <<"Boolean", LeftValue # RightValue>>

\* two numbers are equal as f64 are: NaN equals nothing, and the two zeros are equal
NumbersEqual(a, b) ==
    /\ <<a[2], a[3]>> # <<0, 0>>
    /\ <<b[2], b[3]>> # <<0, 0>>
    /\ \/ <<a[2], a[3]>> = <<b[2], b[3]>>
       \/ a[2] = 0 /\ b[2] = 0
\* l and r have the same kind and equal content
SameContent(l, r) ==
    /\ l[1] = r[1]
    /\ IF l[1] = "Number" THEN NumbersEqual(l, r) ELSE l = r

\* C14, amended: l == r is true exactly when l and r have the same kind and equal content,
\* numbers being equal as f64 are (NaN equals no number, itself included, and -0 equals 0);
\* it is false whenever the kinds differ, and l != r is its negation.
C14_EqualityIEEE ==
    /\ Evaluated("EqualEqual") => ret[2] = <<"Boolean", SameContent(LeftValue, RightValue)>>
    /\ Evaluated("BangEqual") => ret[2] = <<"Boolean", ~SameContent(LeftValue, RightValue)>>

\* NaN has been compared with NaN by !=
C14_Witness ==
    /\ Evaluated("BangEqual")
    /\ LeftValue = <<"Number", 0, 0>>
    /\ RightValue = <<"Number", 0, 0>>
    /\ ret = <<"Value", <<"Boolean", TRUE>>>>

\* false, null, the number zero and the empty string
Falsy(v) ==
    \/ v = <<"Boolean", FALSE>>
    \/ v = <<"Null">>
    \/ v = <<"String", "">>
    \/ v[1] = "Number" /\ v[2] = 0 /\ v[3] # 0

\* the statement and the environment of the call that kont has on top in the next state
Started(stmt, env) ==
    /\ Len(kont') = Len(kont) + 1
    /\ kont'[Len(kont')].stmt = stmt
    /\ kont'[Len(kont')].env = env
    /\ kont'[Len(kont')].pc = "start"

\* C15: the condition of an If or a While counts as false exactly when its value is
\* Boolean(false), Null, the number zero or the empty string; If executes its then-branch
\* when it is true, its else-branch, if it has one, when it is false and nothing otherwise,
\* and While executes its body exactly when it is true.
C15_Truthiness ==
    [][ (kont # <<>> /\ Top.pc = "start" /\ Top.stmt[1] \in {"If", "While"}) =>
            IF Top.stmt[1] = "While"
            THEN IF Falsy(evaluate(Top.stmt[2]))
                 THEN kont' = Return /\ out' = out /\ envs' = envs
                 ELSE Started(Top.stmt[3], Top.env)
            ELSE IF ~Falsy(evaluate(Top.stmt[2]))
                 THEN Started(Top.stmt[3], Top.env)
                 ELSE IF Top.stmt[4] # <<"None">>
                 THEN Started(Top.stmt[4][2], Top.env)
                 ELSE kont' = Return /\ ret' = <<"None">> /\ out' = out /\ envs' = envs
      ]_vars

\* an If whose condition is a non-empty string runs its then-branch, one whose condition is
\* negative zero runs its else-branch
C15_Witness ==
    /\ Len(kont) = 2
    /\ kont[1].stmt[1] = "If"
    /\ kont[1].stmt[4] # <<"None">>
    /\ \/ /\ evaluate(kont[1].stmt[2]) = <<"String", "a">>
          /\ kont[2].stmt = kont[1].stmt[3]
       \/ /\ evaluate(kont[1].stmt[2]) = <<"Number", 0, -1>>
          /\ kont[2].stmt = kont[1].stmt[4][2]

(***************************************************************************)
(* The scanner (scanner.rs).  source is the sequence of the bytes of the   *)
(* String, a byte being the one-character string of an ASCII character or  *)
(* "C3", "A9", the two bytes of a two-byte character.  Indices are byte    *)
(* indices from 0, as in the code: byte i is src[i + 1].  A Token is the   *)
(* record of its lexeme, line and typ, the typ being the token the parser  *)
(* reads.  A slice of the source that does not fall on character           *)
(* boundaries panics.                                                      *)
(***************************************************************************)
MaxSrc == 3   \* most symbols in a source text

Continuation == {"A9"}
PANIC == "panic"
NUL == "NUL"

\* str::is_char_boundary
is_char_boundary(src, i) == i = 0 \/ i >= Len(src) \/ src[i + 1] \notin Continuation

\* `char::from_str(&self.source[i..i+1]).expect("char expected")`, for i < source.len()
charAt(src, i) ==
    IF is_char_boundary(src, i) /\ is_char_boundary(src, i + 1) THEN src[i + 1] ELSE PANIC

\* Scanner::is_at_end
Scanner_is_at_end(src, cur) == cur >= Len(src)

\* Scanner::peek
Scanner_peek(src, cur) == IF Scanner_is_at_end(src, cur) THEN NUL ELSE charAt(src, cur)

\* Scanner::peek_next
peek_next(src, cur) == IF cur + 1 >= Len(src) THEN NUL ELSE charAt(src, cur + 1)

Digits == {"0", "1", "2", "3", "4", "5", "6", "7", "8", "9"}
\* Scanner::is_digit
is_digit(c) == c \in Digits

Letters ==
    {"a", "b", "c", "d", "e", "f", "g", "h", "i", "j", "k", "l", "m", "n", "o", "p", "q", "r",
     "s", "t", "u", "v", "w", "x", "y", "z", "A", "B", "C", "D", "E", "F", "G", "H", "I", "J",
     "K", "L", "M", "N", "O", "P", "Q", "R", "S", "T", "U", "V", "W", "X", "Y", "Z", "_"}
\* Scanner::is_alpha
is_alpha(c) == c \in Letters
\* Scanner::is_alpha_numeric
is_alpha_numeric(c) == is_digit(c) \/ is_alpha(c)

\* the String of a slice of the source
RECURSIVE Text(_)
Text(bytes) == IF bytes = <<>> THEN "" ELSE Head(bytes) \o Text(Tail(bytes))

\* &self.source[a..b]
Slice(src, a, b) == Text(SubSeq(src, a + 1, b))

\* Token::new
Token(lexeme, line, t) == [lexeme |-> lexeme, line |-> line, typ |-> t]

\* Scanner::get_lexeme
get_lexeme(src, sc) == Slice(src, sc.start, sc.current)

\* Scanner::add_token
add_token(src, sc, t) ==
    [sc EXCEPT !.tokens = Append(@, Token(get_lexeme(src, sc), sc.line, t))]

\* main.rs error()
error(line, message) == "[line " \o ToString(line) \o "] Error: " \o message

\* what scan_token and its helpers give: the scanner after them, and Ok(()), Err(e) or a panic
SOk(sc) == [st |-> "ok", sc |-> sc, e |-> ""]
SErr(sc, e) == [st |-> "err", sc |-> sc, e |-> e]
SPanic(sc) == [st |-> "panic", sc |-> sc, e |-> "byte index is not a char boundary"]

\* Scanner::char_match, as the scanner after it and whether it matched
char_match(src, sc, expected) ==
    IF Scanner_is_at_end(src, sc.current) THEN [st |-> "ok", sc |-> sc, m |-> FALSE]
    ELSE IF charAt(src, sc.current) = PANIC THEN [st |-> "panic", sc |-> sc, m |-> FALSE]
    ELSE IF charAt(src, sc.current) # expected THEN [st |-> "ok", sc |-> sc, m |-> FALSE]
    ELSE [st |-> "ok", sc |-> [sc EXCEPT !.current = @ + 1], m |-> TRUE]

\* `while <test>(self.peek()) { self.advance(); }`: the cursor after the loop, -1 for a panic
RECURSIVE advanceWhile(_, _, _)
advanceWhile(src, cur, S) ==
    IF Scanner_peek(src, cur) = PANIC THEN -1
    ELSE IF Scanner_peek(src, cur) \in S THEN advanceWhile(src, cur + 1, S)
    ELSE cur

\* the `//` arm: `while self.peek() != '\n' && !self.is_at_end() { self.advance(); }`
RECURSIVE comment(_, _)
comment(src, cur) ==
    IF Scanner_peek(src, cur) = PANIC THEN -1
    ELSE IF Scanner_peek(src, cur) # "\n" /\ ~Scanner_is_at_end(src, cur)
    THEN comment(src, cur + 1)
    ELSE cur

\* the loop of Scanner::string without its count of the newlines
RECURSIVE stringLoopFlat(_, _)
stringLoopFlat(src, sc) ==
    IF Scanner_peek(src, sc.current) = PANIC THEN [sc EXCEPT !.current = -1]
    ELSE IF Scanner_peek(src, sc.current) # "\"" /\ ~Scanner_is_at_end(src, sc.current)
    THEN stringLoopFlat(src, [sc EXCEPT !.current = @ + 1])
    ELSE sc

\* the loop of Scanner::string, as the scanner after it (current is -1 for a panic)
RECURSIVE stringLoop(_, _)
stringLoop(src, sc) ==
    IF Scanner_peek(src, sc.current) = PANIC THEN [sc EXCEPT !.current = -1]
    ELSE IF Scanner_peek(src, sc.current) # "\"" /\ ~Scanner_is_at_end(src, sc.current)
    THEN stringLoop(src, [sc EXCEPT !.current = @ + 1,
                                    !.line = IF Scanner_peek(src, sc.current) = "\n"
                                             THEN @ + 1 ELSE @])
    ELSE sc

\* Scanner::string; the value of `error(self.line, "Unterminated string.")` is dropped
string(src, sc) ==
    LET l == stringLoop(src, sc)
    IN  IF l.current = -1 THEN SPanic(sc)
        ELSE IF Scanner_is_at_end(src, l.current) THEN SOk(l)
        ELSE SOk(add_token(src, [l EXCEPT !.current = @ + 1],
                           <<"String", Slice(src, l.start + 1, l.current)>>))

\* the number a sequence of digits writes
RECURSIVE DigitsValue(_)
DigitsValue(ds) ==
    IF ds = <<>> THEN 0
    ELSE 10 * DigitsValue(SubSeq(ds, 1, Len(ds) - 1))
            + (CHOOSE n \in 0..9 : ToString(n) = ds[Len(ds)])

RECURSIVE Pow10(_)
Pow10(k) == IF k = 0 THEN 1 ELSE 10 * Pow10(k - 1)

\* f64::from_str of the lexeme: the integer it writes or, with a fraction, the f64 nearest to
\* <<n, d>>, n/d in lowest terms
from_str(bytes, dot) ==
    IF dot = 0 THEN DigitsValue(bytes)
    ELSE LET n == DigitsValue(SubSeq(bytes, 1, dot - 1) \o SubSeq(bytes, dot + 1, Len(bytes)))
             d == Pow10(Len(bytes) - dot)
         IN  IF n % d = 0 THEN n \div d ELSE <<n \div Gcd(n, d), d \div Gcd(n, d)>>

\* Scanner::number
number(src, sc) ==
    LET c1 == advanceWhile(src, sc.current, Digits)
        frac == /\ c1 # -1
                /\ Scanner_peek(src, c1) = "."
                /\ peek_next(src, c1) \in Digits \cup {PANIC}
        c2 == IF frac /\ peek_next(src, c1) # PANIC
              THEN advanceWhile(src, c1 + 1, Digits) ELSE c1
    IN  IF c1 = -1 \/ c2 = -1 \/ (frac /\ peek_next(src, c1) = PANIC) THEN SPanic(sc)
        ELSE SOk(add_token(src, [sc EXCEPT !.current = c2],
                           <<"Number", from_str(SubSeq(src, sc.start + 1, c2),
                                                IF c2 = c1 THEN 0 ELSE c1 - sc.start + 1)>>))

Keywords ==
    [and |-> "And", else |-> "Else", false |-> "False", for |-> "For", fn |-> "Fn", if |-> "If",
     null |-> "Null", or |-> "Or", print |-> "Print", return |-> "Return", true |-> "True",
     let |-> "Let", while |-> "While"]

\* Scanner::identifier
identifier(src, sc) ==
    LET c1 == advanceWhile(src, sc.current, Letters \cup Digits)
    IN  IF c1 = -1 THEN SPanic(sc)
        ELSE SOk(add_token(src, [sc EXCEPT !.current = c1],
                           IF Slice(src, sc.start, c1) \in DOMAIN Keywords
                           THEN <<Keywords[Slice(src, sc.start, c1)]>>
                           ELSE <<"Identifier">>))

\* the one-character tokens of scan_token
SingleChar ==
    [c \in {"(", ")", "{", "}", ",", ".", "-", "+", ";", "*"} |->
        CASE c = "(" -> "LeftParen" [] c = ")" -> "RightParen"
          [] c = "{" -> "LeftBrace" [] c = "}" -> "RightBrace"
          [] c = "," -> "Comma" [] c = "." -> "Dot"
          [] c = "-" -> "Minus" [] c = "+" -> "Plus"
          [] c = ";" -> "Semicolon" [] c = "*" -> "Star"]

\* the tokens of scan_token that an `=` may extend: with it, without it
WithEqual ==
    [c \in {"!", "=", "<", ">"} |->
        CASE c = "!" -> <<"BangEqual", "Bang">> [] c = "=" -> <<"EqualEqual", "Equal">>
          [] c = "<" -> <<"LessEqual", "Less">> [] c = ">" -> <<"GreaterEqual", "Greater">>]

\* Scanner::scan_token on the character c that advance returned, sc being the scanner after
\* the advance
scan_char(src, sc, c) ==
    CASE c \in DOMAIN SingleChar -> SOk(add_token(src, sc, <<SingleChar[c]>>))
      [] c \in DOMAIN WithEqual ->
            (LET m == char_match(src, sc, "=")
             IN  IF m.st = "panic" THEN SPanic(sc)
                 ELSE SOk(add_token(src, m.sc, <<WithEqual[c][IF m.m THEN 1 ELSE 2]>>)))
      [] c = "/" ->
            (LET m == char_match(src, sc, "/")
             IN  IF m.st = "panic" THEN SPanic(sc)
                 ELSE IF ~m.m THEN SOk(add_token(src, sc, <<"Slash">>))
                 ELSE IF comment(src, m.sc.current) = -1 THEN SPanic(sc)
                 ELSE SOk([sc EXCEPT !.current = comment(src, m.sc.current)]))
      [] c = "\"" -> string(src, sc)
      [] c \in {" ", "\r", "\t"} -> SOk(sc)
      [] c = "\n" -> SOk([sc EXCEPT !.line = @ + 1])
      [] is_digit(c) -> number(src, sc)
      [] is_alpha(c) -> identifier(src, sc)
      [] OTHER -> SErr(sc, error(sc.line, "Unexpected token '" \o c \o "'."))

\* Scanner::advance
Scanner_advance(src, sc) == [sc EXCEPT !.current = @ + 1]

\* Scanner::scan_token, after `self.start = self.current`
scan_token(src, sc) ==
    IF charAt(src, sc.current) = PANIC
    THEN SPanic(sc)
    ELSE scan_char(src, Scanner_advance(src, [sc EXCEPT !.start = sc.current]),
                   charAt(src, sc.current))

\* scan_tokens without the EOF token when it scanned no token
pushEOFUnlessEmpty(sc) ==
    IF sc.tokens = <<>> THEN sc ELSE [sc EXCEPT !.tokens = Append(@, Token("", sc.line, <<"EOF">>))]

\* Scanner::scan_tokens: `self.tokens.push(Rc::new(Token::new("", self.line, TokenType::EOF)))`
pushEOF(sc) == [sc EXCEPT !.tokens = Append(@, Token("", sc.line, <<"EOF">>))]

\* the symbols of the source texts: characters, one of them of two bytes, and a keyword
Symbols ==
    { <<"(">>, <<"!">>, <<"=">>, <<"/">>, <<"\"">>, <<"\n">>, <<"1">>, <<".">>, <<"a">>, <<"@">>,
      <<"C3", "A9">>, <<"i", "f">> }

Sources == { Concat(ss) : ss \in SeqsUpTo(Symbols, MaxSrc) }

\* main: Scanner { source, tokens: vec![], start: 0, current: 0, line: 0 }, scan_tokens called
InitScan ==
    /\ ParserIdle
    /\ ArenaIdle
    /\ EvalIdle
    /\ source \in Sources
    /\ scanner = [tokens |-> <<>>, start |-> 0, current |-> 0, line |-> 0, st |-> "scanning"]
    /\ asm = <<>>
    /\ cpu = NoCpu

\* an iteration of the loop of scan_tokens whose scan_token ended as st
Scanning(st) ==
    /\ scanner.st = "scanning"
    /\ ~Scanner_is_at_end(source, scanner.current)
    /\ scan_token(source, scanner).st = st
    /\ UNCHANGED <<source, asmVars, parserVars, arenaVars, kont, ret, log>>

\* scan_token returned Ok(())
ScanToken ==
    /\ Scanning("ok")
    /\ scanner' = scan_token(source, scanner).sc
    /\ out' = out

\* scan_token returned Err(e): `println!("Error occured while scanning: {}", e)`
ScanError ==
    /\ Scanning("err")
    /\ scanner' = scan_token(source, scanner).sc
    /\ out' = Append(out, "Error occured while scanning: " \o scan_token(source, scanner).e)

\* scan_token panicked
ScanPanic ==
    /\ Scanning("panic")
    /\ scanner' = [scanner EXCEPT !.st = "panicked"]
    /\ out' = out

\* the end of the loop: the EOF token, and the tokens returned
ScanReturn ==
    /\ scanner.st = "scanning"
    /\ Scanner_is_at_end(source, scanner.current)
    /\ scanner' = [pushEOF(scanner) EXCEPT !.st = "returned"]
    /\ UNCHANGED <<source, asmVars, parserVars, arenaVars, evalVars>>

NextScan ==
    \/ ScanToken
    \/ ScanError
    \/ ScanPanic
    \/ ScanReturn

SpecScan == InitScan /\ [][NextScan]_vars

\* C16: the token sequence scan_tokens returns holds exactly one EOF token, its last element.
C16_OneEOFLast ==
    scanner.st = "returned" =>
        /\ scanner.tokens # <<>>
        /\ \A k \in 1..Len(scanner.tokens) :
                scanner.tokens[k].typ = <<"EOF">> <=> k = Len(scanner.tokens)

\* scan_tokens has returned a token and the EOF token after it reported an error
C16_Witness ==
    /\ scanner.st = "returned"
    /\ out # <<>>
    /\ Len(scanner.tokens) > 1

\* the byte indices of the source that hold the byte c
Where(src, c) == {k \in 0..(Len(src) - 1) : src[k + 1] = c}

\* the source ends inside a string literal: it has no comment, and an odd number of quotes
EndsInString(src) == Where(src, "/") = {} /\ Cardinality(Where(src, "\"")) % 2 = 1

\* the byte index of the opening quote of the string literal the source ends in
OpeningQuote(src) == CHOOSE q \in Where(src, "\"") : \A k \in Where(src, "\"") : k <= q

\* the line of byte index q, lines counted from 0 as the Scanner counts them
LineOf(src, q) == Cardinality({k \in Where(src, "\n") : k < q})

\* C17: when the source ends inside a string literal, scan_tokens reports an
\* "Unterminated string" error with the line of the opening quote, emits no String token for
\* the literal, and returns the tokens scanned before it followed by the EOF token.
C17_UnterminatedReported ==
    (scanner.st = "returned" /\ EndsInString(source)) =>
        /\ \E k \in 1..Len(out) :
                out[k] = "Error occured while scanning: "
                            \o error(LineOf(source, OpeningQuote(source)), "Unterminated string.")
        /\ Cardinality({k \in 1..Len(scanner.tokens) : scanner.tokens[k].typ[1] = "String"})
                = Cardinality(Where(source, "\"")) \div 2
        /\ scanner.tokens[Len(scanner.tokens)].typ = <<"EOF">>

\* the bytes that start a character scan_token has an arm for
Recognised ==
    DOMAIN SingleChar \cup DOMAIN WithEqual \cup {"/", "\"", " ", "\r", "\t", "\n"}
        \cup Digits \cup Letters

\* the number of bytes of the character whose first byte is b
len_utf8(b) == IF b = "C3" THEN 2 ELSE 1

\* the character at byte index cur starts no token
Unrecognised(src, cur) ==
    /\ cur < Len(src)
    /\ is_char_boundary(src, cur)
    /\ src[cur + 1] \notin Recognised

\* the character at byte index cur
CharOf(src, cur) == Slice(src, cur, cur + len_utf8(src[cur + 1]))

\* C18: an iteration of scan_tokens at a character that starts no token reports it with the
\* current line, adds no token and consumes exactly that character, and scanning goes on.
C18_UnrecognisedSkipped ==
    [][(scanner.st = "scanning" /\ Unrecognised(source, scanner.current)) =>
            /\ scanner'.st = "scanning"
            /\ scanner'.tokens = scanner.tokens
            /\ scanner'.line = scanner.line
            /\ scanner'.current = scanner.current + len_utf8(source[scanner.current + 1])
            /\ out' = Append(out, "Error occured while scanning: "
                                    \o error(scanner.line,
                                             "Unexpected token '"
                                                \o CharOf(source, scanner.current) \o "'."))]_vars

(***************************************************************************)
(* The code generator (Expr::compile, Stmt::compile) and the machine its   *)
(* code runs on.  A line of assembly is a tuple: <<";">> a comment,        *)
(* <<"text", s>> a line that is no assembly, <<"label", name, tag>> a      *)
(* label, and otherwise the mnemonic and its operands.  A 64-bit word is   *)
(* the record of its two halves hi and lo, each read as a signed 32-bit    *)
(* integer: its unsigned low half is lo or lo + 2^32.  The operand stack   *)
(* is the machine stack from the entry of the code, top last.  The sums    *)
(* and products of the programs modelled stay within 32 bits.              *)
(***************************************************************************)
MaxInt == 2     \* greatest number literal of a compiled program
MaxEntry == 2   \* most values on the operand stack at the entry of the code
MaxLabels == 2  \* number of the labels of 100..999 the generator is seen to draw
MaxPushed == 6 \* deepest operand stack from which the machine is followed further
MaxPrinted == 2 \* most lines printed after which the machine is followed further
MaxProg == 2    \* most top-level statements of a compiled program

\* the 64-bit word of a 32-bit immediate, sign-extended
Word(n) == [hi |-> IF n < 0 THEN -1 ELSE 0, lo |-> n]

\* the 64-bit word of a 32-bit result written to eax: the upper half is zeroed
ZeroExtend(n) == [hi |-> 0, lo |-> n]

\* a register the called function is free to change
Clobbered == [hi |-> "?", lo |-> "?"]

\* unsigned order of two low halves
ULess(x, y) == IF (x < 0) = (y < 0) THEN x < y ELSE y < 0

\* signed order of two 64-bit words
WLess(a, b) == a.hi < b.hi \/ (a.hi = b.hi /\ ULess(a.lo, b.lo))

\* neg rax
WNeg(a) == IF a.lo = 0 THEN [hi |-> 0 - a.hi, lo |-> 0] ELSE [hi |-> (0 - a.hi) - 1, lo |-> 0 - a.lo]

\* the absolute value of a signed 64-bit word, as an unsigned word
Mag(a) == IF WLess(a, Word(0)) THEN WNeg(a) ELSE a

Max32 == 2147483647

\* the unsigned quotient q and remainder r of two words below 2^32, b not zero
UDiv(a, b) ==
    CASE a.lo >= 0 /\ b.lo > 0 -> [q |-> ZeroExtend(a.lo \div b.lo), r |-> ZeroExtend(a.lo % b.lo)]
      [] a.lo >= 0 /\ b.lo < 0 -> [q |-> ZeroExtend(0), r |-> a]
      [] a.lo < 0 /\ b.lo < 0 ->
            IF ULess(a.lo, b.lo) THEN [q |-> ZeroExtend(0), r |-> a]
            ELSE [q |-> ZeroExtend(1), r |-> ZeroExtend(a.lo - b.lo)]
      [] a.lo < 0 /\ b.lo = 1 -> [q |-> a, r |-> ZeroExtend(0)]
      [] a.lo < 0 /\ b.lo > 1 ->
            [q |-> ZeroExtend(2 * (Max32 \div b.lo) + ((2 * (Max32 % b.lo) + 2 + a.lo) \div b.lo)),
             r |-> ZeroExtend((2 * (Max32 % b.lo) + 2 + a.lo) % b.lo)]

\* cqo and idiv rbx: the quotient rounded toward zero and the remainder, b not zero
IDiv(a, b) ==
    [q |-> IF WLess(a, Word(0)) = WLess(b, Word(0))
           THEN UDiv(Mag(a), Mag(b)).q ELSE WNeg(UDiv(Mag(a), Mag(b)).q),
     r |-> IF WLess(a, Word(0)) THEN WNeg(UDiv(Mag(a), Mag(b)).r) ELSE UDiv(Mag(a), Mag(b)).r]

\* the setcc mnemonic of a comparison operator
SetCC ==
    [Less |-> "setl", LessEqual |-> "setle", Greater |-> "setg", GreaterEqual |-> "setge",
     EqualEqual |-> "sete", BangEqual |-> "setne"]

\* Expr::compile: the lines it writes, a number literal pushed as the Value it holds
RECURSIVE Expr_compile(_)
Expr_compile(e) ==
    CASE e[1] = "Literal" ->
            << <<";">> >>
                \o (CASE e[2][1] = "Null" -> << <<";">> >>
                      [] e[2][1] = "Number" -> << <<"push", e[2]>> >>
                      [] e[2][1] = "Boolean" ->
                            << <<"push", IF e[2][2] THEN Num(1) ELSE Num(0)>> >>
                      [] e[2][1] = "String" -> << <<";">> >>)
      [] e[1] = "Unary" ->
            << <<";">> >>
                \o (CASE typ(e[2]) = "Minus" ->
                            Expr_compile(e[3])
                                \o << <<"pop", "rax">>, <<"neg", "rax">>, <<"push", "rax">> >>
                      [] typ(e[2]) = "Bang" -> << <<"text", "not implemented yet!">> >>
                      [] OTHER -> << <<"text", "error">> >>)
      [] e[1] = "Binary" ->
            Expr_compile(e[2]) \o Expr_compile(e[4]) \o << <<";">> >>
                \o (CASE typ(e[3]) = "Plus" ->
                            << <<"pop", "rbx">>, <<"pop", "rax">>, <<"add", "eax", "ebx">>,
                               <<"push", "rax">> >>
                      [] typ(e[3]) = "Star" ->
                            << <<"pop", "rbx">>, <<"pop", "rax">>, <<"imul", "ebx">>,
                               <<"push", "rax">> >>
                      [] typ(e[3]) = "Minus" ->
                            << <<"pop", "rbx">>, <<"pop", "rax">>, <<"sub", "eax", "ebx">>,
                               <<"push", "rax">> >>
                      [] typ(e[3]) = "Slash" ->
                            << <<"pop", "rbx">>, <<"pop", "rax">>, <<"cqo">>, <<"idiv", "rbx">>,
                               <<"push", "rax">> >>
                      [] typ(e[3]) \in DOMAIN SetCC ->
                            << <<"pop", "rbx">>, <<"pop", "rax">>, <<"cmp", "rax", "rbx">>,
                               <<SetCC[typ(e[3])], "al">>, <<"movzx", "rax", "al">>,
                               <<"push", "rax">> >>
                      [] OTHER -> << <<";">> >>)
      [] e[1] = "Grouping" -> << <<";">> >> \o Expr_compile(e[2])
      [] e[1] = "Soro" -> << <<";">> >>

\* the If and While constructs of a statement, each of which draws a label
RECURSIVE Constructs(_)
Constructs(s) ==
    CASE s[1] = "Block" ->
            IF s[2] = <<>> THEN 0 ELSE Constructs(Head(s[2])) + Constructs(<<"Block", Tail(s[2])>>)
      [] s[1] = "If" ->
            1 + Constructs(<<"Block", <<s[3]>> \o (IF s[4] = None THEN <<>> ELSE <<s[4][2]>>)>>)
      [] s[1] = "While" -> 1 + Constructs(s[3])
      [] OTHER -> 0

\* Stmt::compile, rng being the labels `rng.gen_range(100..1000)` gives, in the order drawn
RECURSIVE Stmt_compile(_, _)
Stmt_compile(s, rng) ==
    CASE s[1] = "Expression" -> Expr_compile(s[2])
      [] s[1] = "Print" ->
            << <<";">> >> \o Expr_compile(s[2])
                \o << <<"lea", "rcx", "msg">>, <<"pop", "rdx">>, <<"call", "printf">> >>
      [] s[1] = "Block" ->
            IF s[2] = <<>> THEN <<>>
            ELSE Stmt_compile(Head(s[2]), SubSeq(rng, 1, Constructs(Head(s[2]))))
                    \o Stmt_compile(<<"Block", Tail(s[2])>>,
                                    SubSeq(rng, Constructs(Head(s[2])) + 1, Len(rng)))
      [] s[1] = "If" ->
            << <<";">> >> \o Expr_compile(s[2]) \o << <<"pop", "rax">>, <<"cmp", "rax", "1">> >>
                \o (IF s[4] # None
                    THEN << <<"jne", ".ne", rng[1]>> >>
                            \o Stmt_compile(s[3], SubSeq(rng, 2, 1 + Constructs(s[3])))
                            \o << <<"jmp", ".end", rng[1]>>, <<"label", ".ne", rng[1]>> >>
                            \o Stmt_compile(s[4][2], SubSeq(rng, 2 + Constructs(s[3]), Len(rng)))
                    ELSE << <<"jne", ".end", rng[1]>> >> \o Stmt_compile(s[3], Tail(rng)))
                \o << <<"label", ".end", rng[1]>> >>
      [] s[1] = "While" ->
            << <<";">>, <<"jmp", ".cond", rng[1]>>, <<"label", ".body", rng[1]>> >>
                \o Stmt_compile(s[3], Tail(rng))
                \o << <<"label", ".cond", rng[1]>> >>
                \o Expr_compile(s[2])
                \o << <<"pop", "rax">>, <<"cmp", "rax", "1">>, <<"je", ".body", rng[1]>> >>
      [] s[1] = "Faran" -> << <<";">>, <<"pop", "rax">> >>
      [] s[1] = "Ke" -> << <<";">>, <<"pop", "rax">>, <<"push", "rax">>, <<"push", "rax">> >>

\* `rng.gen_range(100..1000)`
Labels == 100..999

\* the labels the generator is seen to draw: the first MaxLabels of them
Draws == { l \in Labels : l < 100 + MaxLabels }

\* the labels the constructs of the statement s may draw, in the order drawn

Rngs(s) == IF Constructs(s) = 0 THEN {<<>>} ELSE [1..Constructs(s) -> Draws]

\* the assembler takes the line: it is a comment, a label or an instruction with operands it
\* can encode (`push {}` of a number that is not an integer is none)
Encodable(line) ==
    /\ line[1] # "text"
    /\ (line[1] = "push" /\ line[2] # "rax") => (line[2][3] = 1 \/ line[2] = <<"Number", 0, -1>>)

\* the line that defines the label a jump names
Target(code, j) == CHOOSE k \in 1..Len(code) : code[k] = <<"label", j[2], j[3]>>

\* the lines for which the assembler rejects the code: a line it cannot encode, a label
\* defined before, a jump to a label that is not defined
Faults(code) ==
    { k \in 1..Len(code) :
        \/ ~Encodable(code[k])
        \/ code[k][1] = "label" /\ \E l \in 1..(k - 1) : code[l] = code[k]
        \/ /\ code[k][1] \in {"jmp", "je", "jne"}
           /\ \A l \in 1..Len(code) : code[l] # <<"label", code[k][2], code[k][3]>> }

\* the register r of the machine c set to the word w
SetReg(c, r, w) ==
    CASE r = "rax" -> [c EXCEPT !.rax = w]
      [] r = "rbx" -> [c EXCEPT !.rbx = w]
      [] r = "rcx" -> [c EXCEPT !.rcx = w]
      [] r = "rdx" -> [c EXCEPT !.rdx = w]

\* pop r: below the entry of the code the stack holds nothing the code may rely on
Pop(c, r) ==
    IF c.stack = <<>> THEN [c EXCEPT !.st = "underflow"]
    ELSE [SetReg(c, r, c.stack[Len(c.stack)]) EXCEPT !.stack = SubSeq(@, 1, Len(@) - 1)]

\* push of a word
Push(c, w) == [c EXCEPT !.stack = Append(@, w)]

\* the flags after cmp a, b, as the signed order of a and b
Cmp(a, b) == IF a = b THEN "eq" ELSE IF WLess(a, b) THEN "lt" ELSE "gt"

\* je taken as jne is
CondUnequal(m, flags) ==
    CASE m \in {"setl"} -> flags = "lt"
      [] m \in {"setle"} -> flags \in {"lt", "eq"}
      [] m \in {"setg"} -> flags = "gt"
      [] m \in {"setge"} -> flags \in {"gt", "eq"}
      [] m \in {"sete"} -> flags = "eq"
      [] m \in {"setne", "jne", "je"} -> flags # "eq"
      [] m = "jmp" -> TRUE

\* the condition of a setcc or jcc mnemonic on the flags
Cond(m, flags) ==
    CASE m \in {"setl"} -> flags = "lt"
      [] m \in {"setle"} -> flags \in {"lt", "eq"}
      [] m \in {"setg"} -> flags = "gt"
      [] m \in {"setge"} -> flags \in {"gt", "eq"}
      [] m \in {"sete", "je"} -> flags = "eq"
      [] m \in {"setne", "jne"} -> flags # "eq"
      [] m = "jmp" -> TRUE

\* the machine c after the instruction i of the code, before the program counter moves on
Exec(code, c, i) ==
    CASE i[1] \in {";", "label"} -> c
      [] i[1] = "push" -> Push(c, IF i[2] = "rax" THEN c.rax ELSE Word(i[2][2]))
      [] i[1] = "pop" -> Pop(c, i[2])
      [] i[1] = "neg" -> [c EXCEPT !.rax = WNeg(@)]
      [] i[1] = "add" -> [c EXCEPT !.rax = ZeroExtend(c.rax.lo + c.rbx.lo)]
      [] i[1] = "sub" -> [c EXCEPT !.rax = ZeroExtend(c.rax.lo - c.rbx.lo)]
      [] i[1] = "imul" ->
            [c EXCEPT !.rax = ZeroExtend(c.rax.lo * c.rbx.lo),
                      !.rdx = ZeroExtend(IF c.rax.lo * c.rbx.lo < 0 THEN -1 ELSE 0)]
      [] i[1] = "cqo" -> [c EXCEPT !.rdx = IF WLess(c.rax, Word(0)) THEN Word(-1) ELSE Word(0)]
      [] i[1] = "idiv" ->
            IF c.rbx = Word(0) THEN [c EXCEPT !.st = "trap"]
            ELSE [c EXCEPT !.rax = IDiv(c.rax, c.rbx).q, !.rdx = IDiv(c.rax, c.rbx).r]
      [] i[1] = "cmp" -> [c EXCEPT !.flags = Cmp(c.rax, IF i[3] = "rbx" THEN c.rbx ELSE Word(1))]
      [] i[1] \in {"setl", "setle", "setg", "setge", "sete", "setne"} ->
            [c EXCEPT !.rax.lo = (@ - (@ % 256)) + (IF Cond(i[1], c.flags) THEN 1 ELSE 0)]
      [] i[1] = "movzx" -> [c EXCEPT !.rax = ZeroExtend(c.rax.lo % 256)]
      [] i[1] = "lea" -> [c EXCEPT !.rcx = "msg"]
      [] i[1] = "xor" -> [c EXCEPT !.rcx = Word(0)]
      [] i[1] = "call" -> [c EXCEPT !.rax = Clobbered, !.rcx = Clobbered, !.rdx = Clobbered]
      [] i[1] \in {"jmp", "je", "jne"} ->
            IF Cond(i[1], c.flags) THEN [c EXCEPT !.pc = Target(code, i) - 1] ELSE c

\* printf with the format msg, "%d" and a line end: the low half of rdx as a signed integer
printf(c) == ToString(c.rdx.lo)

\* the number literals of the compiled programs
NumLits == { Lit(Num(i)) : i \in 0..MaxInt }

\* the expressions compiled: every kind of literal, soro, each operator on them, and
\* operators on the results of operators
Atoms == NumLits \cup {Lit(Bool(TRUE)), Lit(Bool(FALSE)), Lit(Str("a")), Lit(Null), <<"Soro">>}

Subtractions == { <<"Binary", Lit(Num(0)), Tok("Minus"), n>> : n \in NumLits }

Computed ==
    Subtractions
        \cup { <<"Unary", Tok("Minus"), n>> : n \in NumLits }
        \cup { <<"Grouping", n>> : n \in NumLits }

CompileExprs ==
    Atoms
        \cup { <<"Unary", Tok(o), a>> : o \in UnaryOps, a \in Atoms }
        \cup { <<"Grouping", a>> : a \in Atoms }
        \cup { <<"Binary", a, Tok(o), b>> : a \in NumLits \cup {<<"Soro">>}, o \in BinaryOps,
                                             b \in NumLits \cup {<<"Soro">>} }
        \cup { <<"Binary", a, Tok(o), b>> : a \in Computed, o \in BinaryOps,
                                             b \in NumLits \cup Subtractions }

\* the operand stacks the code is entered with
EntryStacks == SeqsUpTo({Word(7), Word(8)}, MaxEntry)

\* main (Com): the statements parsed, nothing compiled yet
InitCompile ==
    /\ ArenaIdle
    /\ EvalIdle
    /\ source = <<>>
    /\ scanner = NoScanner
    /\ tokens = <<>>
    /\ current = 0
    /\ pstate = "returned"
    /\ call = None
    /\ \E e \in CompileExprs : statements \in { << <<"Expression", e>> >>, << <<"Print", e>> >> }
    /\ asm = <<>>
    /\ \E s \in EntryStacks : cpu = [NoCpu EXCEPT !.st = "parsed", !.stack = s, !.entry = s]

\* `stmt.compile()`
Compile ==
    /\ cpu.st = "parsed"
    /\ \E rng \in Rngs(statements[1]) : asm' = Stmt_compile(statements[1], rng)
    /\ cpu' = [cpu EXCEPT !.st = "compiled"]
    /\ UNCHANGED <<scanVars, parserVars, arenaVars, evalVars>>

\* the assembler takes the code
Assemble ==
    /\ cpu.st = "compiled"
    /\ Faults(asm) = {}
    /\ cpu' = [cpu EXCEPT !.st = "running"]
    /\ UNCHANGED <<scanVars, asm, parserVars, arenaVars, evalVars>>

\* the assembler rejects the code
AssembleError ==
    /\ cpu.st = "compiled"
    /\ Faults(asm) # {}
    /\ cpu' = [cpu EXCEPT !.st = "rejected"]
    /\ UNCHANGED <<scanVars, asm, parserVars, arenaVars, evalVars>>

\* the machine at an instruction whose execution ends as st
At(st) ==
    /\ cpu.st = "running"
    /\ cpu.pc < Len(asm)
    /\ Len(cpu.stack) <= MaxPushed
    /\ Len(out) <= MaxPrinted
    /\ Exec(asm, cpu, asm[cpu.pc + 1]).st = st
    /\ UNCHANGED <<scanVars, asm, parserVars, arenaVars, kont, ret, log>>

\* one instruction
Step ==
    /\ At("running")
    /\ cpu' = [Exec(asm, cpu, asm[cpu.pc + 1]) EXCEPT !.pc = @ + 1]
    /\ out' = IF asm[cpu.pc + 1] = <<"call", "printf">> THEN Append(out, printf(cpu)) ELSE out

\* idiv by zero: the divide error stops the program
Trap ==
    /\ At("trap")
    /\ cpu' = [cpu EXCEPT !.st = "trap"]
    /\ out' = out

\* a pop below the entry of the code
Underflow ==
    /\ At("underflow")
    /\ cpu' = [cpu EXCEPT !.st = "underflow"]
    /\ out' = out

\* the end of the code
Halt ==
    /\ cpu.st = "running"
    /\ cpu.pc = Len(asm)
    /\ cpu' = [cpu EXCEPT !.st = "done"]
    /\ UNCHANGED <<scanVars, asm, parserVars, arenaVars, evalVars>>

NextCompile ==
    \/ Compile
    \/ Assemble
    \/ AssembleError
    \/ Step
    \/ Trap
    \/ Underflow
    \/ Halt

SpecCompile == InitCompile /\ [][NextCompile]_vars

\* the code of an expression was rejected, or has been run from the entry stack to its end
Ran == statements[1][1] = "Expression" /\ cpu.st \in {"done", "rejected"}

\* C19: the code Expr::compile emits for an expression, run from any operand stack, leaves
\* the stack exactly one value deeper, the values that were on it untouched.
C19_OneValueDeeper ==
    (statements # <<>> /\ Ran) =>
        /\ cpu.st = "done"
        /\ Len(cpu.stack) = Len(cpu.entry) + 1
        /\ SubSeq(cpu.stack, 1, Len(cpu.entry)) = cpu.entry

\* the expression is built from number literals, grouping, unary - and binary operators
RECURSIVE Numeric(_)
Numeric(e) ==
    CASE e[1] = "Literal" -> e[2][1] = "Number"
      [] e[1] = "Grouping" -> Numeric(e[2])
      [] e[1] = "Unary" -> typ(e[2]) = "Minus" /\ Numeric(e[3])
      [] e[1] = "Binary" -> Numeric(e[2]) /\ Numeric(<<"Grouping", e[4]>>)
      [] OTHER -> FALSE

\* the value is an integer or a boolean, which the print call can show
Integral(v) == v[1] = "Boolean" \/ (v[1] = "Number" /\ v[3] = 1)

\* what the print call shows of an integer or a boolean: a boolean is 1 or 0
Shown(v) == IF v[1] = "Boolean" THEN (IF v[2] THEN "1" ELSE "0") ELSE Display(v)

\* the code of `print l op r`, l and r numeric, has been run to its end
Printed ==
    /\ statements # <<>>
    /\ statements[1][1] = "Print"
    /\ statements[1][2][1] = "Binary"
    /\ Numeric(statements[1][2])
    /\ cpu.st = "done"

\* the lines of the code of the binary expression e after the code of its operands and
\* the comment, the code being followed by the three lines of the print call
Operation(code, e) ==
    SubSeq(code, Len(Expr_compile(e[2])) + Len(Expr_compile(e[4])) + 3, Len(code) - 3)

\* C20: the code of `print l op r` is the code of l, the code of r, then a sequence that
\* pops the right value, pops the left value, computes l op r and pushes the one result,
\* then the pop of that result as the argument of the print call: the print call shows the
\* value of l op r.
C20_BinaryPrint ==
    Printed =>
        LET e == statements[1][2]
        IN
            /\ SubSeq(asm, 2, Len(Expr_compile(e[2])) + Len(Expr_compile(e[4])) + 1)
                    = Expr_compile(e[2]) \o Expr_compile(e[4])
            /\ Operation(asm, e)[1] = <<"pop", "rbx">>
            /\ Operation(asm, e)[2] = <<"pop", "rax">>
            /\ Operation(asm, e)[Len(Operation(asm, e))] = <<"push", "rax">>
            /\ \A k \in 3..(Len(Operation(asm, e)) - 1) :
                    Operation(asm, e)[k][1] \notin {"push", "pop"}
            /\ SubSeq(asm, Len(asm) - 1, Len(asm)) = << <<"pop", "rdx">>, <<"call", "printf">> >>
            /\ cpu.stack = cpu.entry
            /\ Integral(evaluate(e)) => out = <<Shown(evaluate(e))>>

\* C21: the k-th add returns the identifier k; no operation removes, reorders or replaces
\* a scope: every identifier returned before still addresses the same scope, with the
\* same parent.
C21_StableIdentifiers ==
    [][/\ Len(envs') >= Len(envs)
       /\ \A i \in 1..Len(envs) :
            /\ envs'[i].index = i - 1
            /\ envs'[i].index = envs[i].index
            /\ envs'[i].parent = envs[i].parent
       /\ (op'.name = "add" /\ op' # op) =>
            /\ Len(envs') = Len(envs) + 1
            /\ op'.res.val = Len(envs)
            /\ envs'[Len(envs')].index = op'.res.val
            /\ envs'[Len(envs')].parent = (IF envs = <<>> THEN None ELSE Some(op'.env))
       /\ (op'.name # "add") => Len(envs') = Len(envs)]_vars

\* a third scope has been added after a binding was defined, and a later assign has run
C21_Witness ==
    /\ Len(envs) >= 3
    /\ Bindings(envs) > 0
    /\ op.name = "assign"
    /\ op.res.st = "ok"

\* C22: scope 0 is the only scope without a parent, the parent of every other scope is a
\* scope added before it, and the parent links from any scope end at scope 0.
C22_Forest ==
    \A i \in 1..Len(envs) :
        /\ envs[i].parent = None <=> i = 1
        /\ i > 1 => envs[i].parent[2] \in 0..(i - 2)
        /\ ChainOf(envs, i - 1)[Len(ChainOf(envs, i - 1))] = 0
        /\ Len(ChainOf(envs, i - 1)) <= i

\* a chain of three scopes
C22_Witness ==
    /\ Len(envs) >= 3
    /\ Len(ChainOf(envs, Len(envs) - 1)) >= 3

Negated ==
    /\ Running("Evaluate", "ret")
    /\ Top.stmt[2][1] = "Unary"
    /\ typ(Top.stmt[2][2]) = "Bang"

\* C28: `!e` is Boolean(true) exactly when the value of e is falsy under Expr::is_true
\* (false, null, zero, the empty string), and Boolean(false) otherwise.
C28_BangIsNotTrue ==
    Negated => ret[2] = Bool(~is_true(Top.stmt[2][3]))

\* the scanner stands between two tokens at a `//`
AtComment ==
    /\ scanner.st = "scanning"
    /\ scanner.current + 1 < Len(source)
    /\ source[scanner.current + 1] = "/"
    /\ source[scanner.current + 2] = "/"

\* the byte index of the first newline from byte index cur on, the length of the source
\* when there is none
EndOfLine(src, cur) ==
    IF \E k \in Where(src, "\n") : k >= cur
    THEN CHOOSE k \in Where(src, "\n") : k >= cur /\ \A l \in Where(src, "\n") : l >= cur => k <= l
    ELSE Len(src)

\* C27: between two scan_token calls the line counter is the number of newlines of the source
\* before the cursor, wherever they stand; a `//` comment adds no token and consumes the
\* characters up to the newline, the newline not included.
C27_LineCounter ==
    /\ [](scanner.st \in {"scanning", "returned"} => scanner.line = LineOf(source, scanner.current))
    /\ [][(AtComment /\ scanner'.st = "scanning") =>
            /\ scanner'.tokens = scanner.tokens
            /\ scanner'.line = scanner.line
            /\ scanner'.current = EndOfLine(source, scanner.current)]_vars

\* a comment, and the newline that ends it, have been scanned
C27_Witness ==
    /\ scanner.st = "returned"
    /\ source = <<"/", "/", "\n">>
    /\ scanner.line = 1
    /\ Len(scanner.tokens) = 1


\* C30: on a token sequence whose only EOF is its last token, every iteration of parse()'s
\* loop that completes (a statement parsed, or an error followed by synchronise) leaves the
\* cursor strictly further along; the cursor always indexes an existing token and never
\* lies past the EOF token, which is where parse() returns; the cursor is thus a strictly
\* increasing bounded measure of the loop, so parse() terminates.
C30_CursorAdvances ==
    /\ [](current + 1 <= Len(tokens))
    /\ [](pstate = "done" => typ(peek(tokens, current)) = "EOF" /\ current + 1 = Len(tokens))
    /\ [][pstate' = "parsing" => current' > current]_vars

\* parse() returned after an iteration that reported an error and synchronised and an
\* iteration that parsed a statement
C30_Witness ==
    /\ pstate = "done"
    /\ tokens = <<Tok("Ke"), Tok("Print"), NumberTok(1), Tok("Semicolon"),
                  Tok("Print"), NumberTok(1), Tok("Semicolon"), EOF>>
    /\ statements = <<<<"Print", <<"Literal", Num(1)>>>>>>
    /\ current = 7


(***************************************************************************)
(* main (Com) on a whole program: the code of every top-level statement in *)
(* order, the closing print and exit, the assembler, and the run of the    *)
(* code from the entry of main, where the operand stack holds nothing the  *)
(* program pushed.                                                         *)
(***************************************************************************)
\* the lines main writes after the code of the statements
Epilogue ==
    << <<"lea", "rcx", "msg">>, <<"pop", "rdx">>, <<"call", "printf">>,
       <<"xor", "rcx", "rcx">>, <<"call", "ExitProcess">> >>

\* `for stmt in stmts { stmt.compile() }` and the closing lines, under the label main
main_compile(stmts, rng) == Stmt_compile(<<"Block", stmts>>, rng) \o Epilogue

Push1 == <<"Expression", Lit(Num(1))>>
Push0 == <<"Expression", Lit(Num(0))>>
Print1 == <<"Print", Lit(Num(1))>>

\* the top-level statements of the compiled programs
MainStmts ==
    { Push1, Push0, Print1, <<"Faran">>, <<"Ke">>,
      <<"Expression", <<"Binary", Lit(Num(1)), Tok("Slash"), Lit(Num(0))>>>>,
      <<"If", Lit(Num(2)), Push1, None>>,
      <<"If", Lit(Bool(TRUE)), Push1, <<"Some", Push0>>>>,
      <<"If", <<"Binary", Lit(Num(2)), Tok("Less"), Lit(Num(1))>>, <<"Faran">>, None>>,
      <<"While", Lit(Bool(FALSE)), Push1>>,
      <<"While", <<"Grouping", Lit(Bool(TRUE))>>, Print1>>,
      <<"While", Lit(Null), Push0>>,
      <<"While", Lit(Num(2)), <<"Faran">>>>,
      <<"While", Lit(Num(1)), <<"If", Lit(Bool(TRUE)), <<"Ke">>, None>>>> }

Programs == SeqsUpTo(MainStmts, MaxProg)

\* main (Com): the statements parsed, nothing compiled yet
InitMain ==
    /\ ArenaIdle
    /\ EvalIdle
    /\ source = <<>>
    /\ scanner = NoScanner
    /\ tokens = <<>>
    /\ current = 0
    /\ pstate = "returned"
    /\ call = None
    /\ statements \in Programs
    /\ asm = <<>>
    /\ cpu = [NoCpu EXCEPT !.st = "parsed"]

\* the loop over the statements and the closing lines
CompileMain ==
    /\ cpu.st = "parsed"
    /\ \E rng \in Rngs(<<"Block", statements>>) : asm' = main_compile(statements, rng)
    /\ cpu' = [cpu EXCEPT !.st = "compiled"]
    /\ UNCHANGED <<scanVars, parserVars, arenaVars, evalVars>>

NextMain ==
    \/ CompileMain
    \/ Assemble
    \/ AssembleError
    \/ Step
    \/ Trap
    \/ Underflow
    \/ Halt

SpecMain == InitMain /\ [][NextMain]_vars


\* the lines of the code that are the body label of a While
Whiles == { b \in 1..Len(asm) : asm[b][1] = "label" /\ asm[b][2] = ".body" }

\* the line of the condition label of the While whose body label is the line b
CondOf(b) == CHOOSE k \in 1..Len(asm) : asm[k] = <<"label", ".cond", asm[b][3]>>

\* the line of the conditional branch of the While whose body label is the line b
TestOf(b) == CHOOSE q \in 1..Len(asm) : asm[q] = <<"je", ".body", asm[b][3]>>

\* one instruction of the code was executed and the machine runs on
Stepped == cpu.st = "running" /\ cpu'.st = "running" /\ cpu.pc < Len(asm)

LabelLines == { k \in 1..Len(asm) : asm[k][1] = "label" }

\* C25: in the assembly emitted for one program the label tags of any two distinct if/while
\* constructs differ, so that each label (.end_N, .ne_N, .body_N, .cond_N) is defined at
\* most once.
C25_LabelsDefinedOnce == \A k, l \in LabelLines : asm[k] = asm[l] => k = l

\* C26: along every execution of the code emitted for a parsed program, each pop, the
\* final `pop rdx` of main included, finds on the operand stack a value that the program's
\* own code pushed and has not yet consumed.
C26_PopsFindPushed == cpu.st # "underflow"

\* conditions built only from numeric and boolean literals, arithmetic, comparison, unary
\* negation and grouping
RECURSIVE Plain(_)
Plain(e) ==
    CASE e[1] = "Literal" -> e[2][1] \in {"Number", "Boolean"}
      [] e[1] = "Unary" -> typ(e[2]) = "Minus" /\ Plain(e[3])
      [] e[1] = "Binary" ->
            typ(e[3]) \in TermOps \cup FactorOps \cup ComparisonOps /\ Plain(e[2]) /\ Plain(e[4])
      [] e[1] = "Grouping" -> Plain(e[2])
      [] OTHER -> FALSE

\* the machine is at the conditional branch of the program's first statement, an If or a
\* While with a condition of that kind
AtTest ==
    /\ statements # <<>>
    /\ statements[1][1] \in {"If", "While"}
    /\ Plain(statements[1][2])
    /\ cpu.pc + 1 = (IF statements[1][1] = "If" THEN Len(Expr_compile(statements[1][2])) + 4
                     ELSE TestOf(3))

\* the branch led into the then-branch, or into the loop body
BranchEntered == IF statements[1][1] = "If" THEN cpu'.pc = cpu.pc + 1 ELSE cpu'.pc = 3

\* C29: for an if or while whose condition is built only from numeric/boolean literals,
\* arithmetic, comparison, unary negation and grouping, the emitted code enters the
\* then-branch or loop body exactly when the evaluator treats the value of the same
\* condition as truthy.
C29_BackEndsAgree == [][Stepped /\ AtTest => (BranchEntered <=> is_true(statements[1][2]))]_vars

====
